---- MODULE Spec2Model ----
(***************************************************************************)
(* media-hero-catch: the download orchestration queue                      *)
(* (src/src/background/download-queue.js) with the transfer transport      *)
(* (browser.downloads) and the host's timers as its environment.           *)
(*                                                                         *)
(* One step of the model is one JavaScript task: a call made by a caller,  *)
(* a transport reply, a transfer event or a timer callback, together with  *)
(* every promise continuation (microtask) it triggers, up to the next      *)
(* await on the transport or on a timer.                                   *)
(*                                                                         *)
(* A process() invocation p is at pc[p]:                                   *)
(*   "idle"      not called yet                                            *)
(*   "starting"  download() requested, its promise pending                 *)
(*   "started"   the transport accepted the request, the id not yet back   *)
(*   "waiting"   in waitForDownload: listener subscribed, 60 s timer armed *)
(*   "sleeping"  in sleep(): the backoff timer armed                       *)
(*   "done"      resolved with ret[p].value                                *)
(*   "rejected"  rejected with ret[p].error                                *)
(*                                                                         *)
(* Spec has callers that add() and process(); SpecClear has callers that   *)
(* also clear(), at any time. Timers carry their duration and may fire at  *)
(* any time they are pending (no clock is modelled).                       *)
(*                                                                         *)
(* SpecBatch is the background script (src/src/background/background.js):  *)
(* PROCESS_URLS requests, the batch loop of processBatch/processUrl with    *)
(* the tabs, the content script's reports and the handlers of these; the   *)
(* DownloadQueue a handler creates is seen from outside, as a process()    *)
(* call that resolves later with all items completed or with some failed.  *)
(* processBatch is at batchPc:                                             *)
(*   "idle"      no batch                                                  *)
(*   "creating"  tabs.create requested                                     *)
(*   "loading"   sleep(1000) after the tab was created                     *)
(*   "sending"   tabs.sendMessage(ANALYZE_PAGE) pending                    *)
(*   "awaiting"  in waitForAnalysisResult: resolver stored, 30 s timer     *)
(*   "closing"   finally block: sleep(tabCloseDelay)                       *)
(*   "removing"  finally block: tabs.remove pending                        *)
(*   "delaying"  sleep(delay * 1000) between two URLs                      *)
(*                                                                         *)
(* SpecPure applies the pure functions of the shared and content modules   *)
(* to arguments drawn from bounded sets.                                   *)
(***************************************************************************)
EXTENDS Integers, Sequences, FiniteSets, TLC

\* ---------------------------------------------------------------- bounds
MaxItems == 3      \* media objects handed to add() over a run
MaxCalls == 2      \* process() calls made over a run
MaxClears == 1     \* clear() calls made over a run
MaxTransfers == 2  \* requests the transport accepts over a run (it rejects the rest)
MaxRequests == 2   \* PROCESS_URLS requests received over a run
MaxUrls == 3       \* length of the urls array of a PROCESS_URLS request
MaxEntries == 3    \* entries of a srcset list
MaxExcess == 4     \* halves of a second a delay lies outside [minDelay, maxDelay]
MaxPieces == 4     \* pieces of a URL string handed to makeAbsoluteUrl
MaxElements == 3   \* media elements of a document handed to a detector
MaxCarousel == 12  \* images of the longest carousel handed to the Instagram detector

\* ------------------------------------------------------ program constants
retryAttempts == 3                        \* CONFIG.downloads.retryAttempts
retryDelays == <<2000, 4000, 8000>>       \* CONFIG.downloads.retryDelays
DefaultRetryDelay == 2000                 \* `|| 2000` in downloadWithRetry
DownloadTimeoutMs == 60000                \* waitForDownload's setTimeout

minDelay == 0                             \* CONFIG.batchProcessing.minDelay
maxDelay == 30                            \* CONFIG.batchProcessing.maxDelay
defaultDelay == 2                         \* CONFIG.batchProcessing.defaultDelay
tabCloseDelay == 1000                     \* CONFIG.batchProcessing.tabCloseDelay
AnalysisTimeoutMs == 30000                \* waitForAnalysisResult(url, 30000)

minHeroSize == 200                        \* CONFIG.detection.minHeroSize
iconThreshold == 100                      \* CONFIG.detection.iconThreshold
\* Multipliers are kept in tenths (1.5 is 15), scores in hundredths of a pixel.
viewportBonusVisible == 15                \* CONFIG.detection.viewportBonusVisible
viewportBonusPartial == 12                \* CONFIG.detection.viewportBonusPartial
qualityBonusHD == 13                      \* CONFIG.detection.qualityBonusHD
qualityBonusSD == 11                      \* CONFIG.detection.qualityBonusSD
NoBonus == 10                             \* the multiplier 1.0
HDWidth == 1920                           \* calculateQualityBonus: width > 1920
SDWidth == 1280                           \* calculateQualityBonus: width > 1280
innerWidth == 1920                        \* window.innerWidth of the documents analysed
innerHeight == 1080                       \* window.innerHeight of the documents analysed
MaxUrlLength == 2048                      \* isValidMediaUrl: url.length > 2048
maxCarouselItems == 10                    \* CONFIG.instagram.maxCarouselItems
ProfileWalkDepth == 5                     \* isProfilePicture: while (parent && depth < 5)
ProfileBoxLimit == 150                    \* isProfilePicture: rect.width < 150 && rect.height < 150
ProfileSquareLimit == 10                  \* isProfilePicture: Math.abs(width - height) < 10
UIBoxLimit == 50                          \* isUIElement: rect.width < 50 || rect.height < 50

NULL == 0                                 \* JavaScript null (no item, no id)
ForeignId == 999                          \* the id of a download that is not the queue's
SourceUrls == {"page1"}                   \* sourceUrl arguments of add()
ErrorCodes == {"NETWORK_FAILED"}          \* delta.error.current of an error event
RequestErrors == {"Invalid URL"}          \* error.message of a rejected download() request

ErrAlreadyProcessing == "Queue is already being processed"
ErrTimeout == "Download timeout"
ErrStartPrefix == "Failed to start download: "

Calls == 1..MaxCalls

VARIABLES
  items,            \* every QueueItem object created by add(), by creation index
  queue,            \* this.queue: the pending list (item indexes)
  isProcessing,     \* this.isProcessing
  currentDownload,  \* this.currentDownload (item index or NULL)
  results,          \* this.results
  pc,               \* per process() invocation: where its async flow is suspended
  curItem,          \* per invocation: `item` of the drain loop
  attempt,          \* per invocation: `attempt` of downloadWithRetry
  downloadId,       \* per invocation: `downloadId` of the attempt
  ret,              \* per invocation: what the returned promise settled with
  invoked,          \* number of process() invocations made so far
  cleared,          \* number of clear() calls made so far
  dequeued,         \* per invocation: the items its drain loop has shifted off the list
  transfers,        \* transport: the state of every transfer it accepted, by transfer id
  listeners,        \* transport: onChanged listeners of the queue, by the id they wait for
  timers,           \* host: pending setTimeout callbacks
  downloadCalls     \* transport: number of download() requests received per media object

vars == <<items, queue, isProcessing, currentDownload, results, pc, curItem, attempt,
          downloadId, ret, dequeued, invoked, cleared, transfers, listeners, timers,
          downloadCalls>>

\* The background script (background.js) and its environment.
VARIABLES
  currentBatch,     \* currentBatch (NoBatch stands for null)
  batchProcessing,  \* the background script's own isProcessing flag
  batchPc,          \* where processBatch/processUrl is suspended
  tabId,            \* `tabId` of processUrl (NULL before the tab exists)
  settled,          \* what the try/catch of processUrl ended with, while its finally runs
  openTabs,         \* host: the tabs the batch created and that are not removed
  resolvers,        \* waitForAnalysisResult.resolvers: the URLs that have an entry
  analysisTimers,   \* host: pending 30 s timers of waitForAnalysisResult, by URL
  asked,            \* content scripts that received ANALYZE_PAGE and have not reported
  reports,          \* MEDIA_DETECTED / ANALYSIS_FAILED messages sent and not yet handled
  handlers,         \* per URL: handleMediaDetected calls suspended on their queue's process()
  requests,         \* number of PROCESS_URLS requests received so far
  request,          \* the PROCESS_URLS data the last step handled (NoRequest: none)
  response,         \* the response the last step gave to it
  batchComplete     \* the BATCH_COMPLETE message the last step sent (NoCompletion: none)

batchVars == <<currentBatch, batchProcessing, batchPc, tabId, settled,
               openTabs, resolvers, analysisTimers, asked, reports, handlers, requests,
               request, response, batchComplete>>

\* Applications of pure functions.
VARIABLES
  fn,               \* the function applied
  arg,              \* its argument
  vals              \* the results so far: of fn(arg), then of fn applied to that result

pureVars == <<fn, arg, vals>>

\* The content script of one tab (the second part of detector-registry.js).
VARIABLES
  document,         \* the document of the tab: its page and document.readyState
  contentPc,        \* where handleAnalyzePage is suspended
  mediaResults,     \* `mediaResults` of handleAnalyzePage
  sent              \* the reports handed to runtime.sendMessage, in order

contentVars == <<document, contentPc, mediaResults, sent>>

\* What the actions of each part leave alone.
notQueue == <<batchVars, pureVars, contentVars>>
notBatch == <<vars, pureVars, contentVars>>
notPure == <<vars, batchVars, contentVars>>
notContent == <<vars, batchVars, pureVars>>

\* ------------------------------------------------------------ data shapes
\* A QueueItem as add() builds it.
QueueItem(media, sourceUrl) ==
  [media |-> media, sourceUrl |-> sourceUrl, retryCount |-> 0, status |-> "pending"]

\* The result downloadWithRetry returns for a completed transfer
\* (error |-> "" stands for the absent field).
CompletedResult(media, id) ==
  [media |-> media, status |-> "completed", downloadId |-> id, error |-> ""]

\* The result process() records in its catch block
\* (downloadId |-> NULL stands for the absent field).
FailedResult(media, message) ==
  [media |-> media, status |-> "failed", downloadId |-> NULL, error |-> message]

\* What a process() promise has settled with (nothing yet: both empty).
Unsettled == [value |-> <<>>, error |-> ""]

TimeoutTimer(p, id) == [kind |-> "timeout", call |-> p, id |-> id, ms |-> DownloadTimeoutMs]
SleepTimer(p, ms) == [kind |-> "sleep", call |-> p, id |-> NULL, ms |-> ms]

\* Mutant: the same backoff after every failed attempt.
RetryDelayFlat(k) == DefaultRetryDelay

\* CONFIG.downloads.retryDelays[attempt] || 2000  (attempt is zero-based)
RetryDelay(k) ==
  IF (k + 1) \in DOMAIN retryDelays /\ retryDelays[k + 1] # 0
  THEN retryDelays[k + 1]
  ELSE DefaultRetryDelay

\* Mutant: the retry test off by one (`attempt <= maxRetries`).
MayRetryOffByOne(k) == k <= retryAttempts

\* `attempt < maxRetries` in the catch block of downloadWithRetry
MayRetry(k) == k < retryAttempts

\* Mutant: the listener does not filter by id (it takes every event as its own).
ListenerMatchesAny(id, deltaId) == TRUE

\* The listener's filter: `delta.id === downloadId`
ListenerMatches(id, deltaId) == deltaId = id

\* A transfer as the transport keeps it (DownloadItem.state, DownloadItem.error).
Transfer(state, error) == [state |-> state, error |-> error]

\* Transfers requested and not yet reported complete or failed.
outstanding == {t \in DOMAIN transfers : transfers[t].state = "in_progress"}

\* getStatus()
getStatus ==
  [isProcessing |-> isProcessing,
   queueLength |-> Len(queue),
   currentDownload |-> currentDownload,
   completedCount |-> Cardinality({k \in DOMAIN results : results[k].status = "completed"}),
   failedCount |-> Cardinality({k \in DOMAIN results : results[k].status = "failed"})]

\* ------------------------------------------------------------------ Init
QueueInit ==
  /\ items = <<>>
  /\ queue = <<>>
  /\ isProcessing = FALSE
  /\ currentDownload = NULL
  /\ results = <<>>
  /\ pc = [p \in Calls |-> "idle"]
  /\ curItem = [p \in Calls |-> NULL]
  /\ attempt = [p \in Calls |-> 0]
  /\ downloadId = [p \in Calls |-> NULL]
  /\ ret = [p \in Calls |-> Unsettled]
  /\ invoked = 0
  /\ cleared = 0
  /\ dequeued = [p \in Calls |-> <<>>]
  /\ transfers = <<>>
  /\ listeners = {}
  /\ timers = {}
  /\ downloadCalls = <<>>

\* ------------------------------------------- JavaScript values (delays)
\* A JavaScript number is kept in units of 1/PerUnit (2.5 is 5 halves), with
\* its kind: "finite", "NaN", "+Infinity" or "-Infinity".
PerUnit == 2

JsNumber(n) == [type |-> "number", kind |-> "finite", halves |-> n * PerUnit]
JsHalves(h) == [type |-> "number", kind |-> "finite", halves |-> h]
JsNaN == [type |-> "number", kind |-> "NaN", halves |-> 0]
JsInfinity == [type |-> "number", kind |-> "+Infinity", halves |-> 0]
JsNegInfinity == [type |-> "number", kind |-> "-Infinity", halves |-> 0]
\* Values that are not numbers: undefined, null, a string, a boolean.
JsOther(type) == [type |-> type, kind |-> "none", halves |-> 0]
Undefined == JsOther("undefined")

\* a < b on JavaScript numbers that are not NaN
JsLess(a, b) ==
  LET rank(x) == CASE x.kind = "-Infinity" -> 0 - 1
                   [] x.kind = "+Infinity" -> 1
                   [] OTHER -> 0
  IN \/ rank(a) < rank(b)
     \/ rank(a) = 0 /\ rank(b) = 0 /\ a.halves < b.halves

\* Math.min and Math.max on two numbers that are not NaN
MathMin(a, b) == IF JsLess(b, a) THEN b ELSE a
MathMax(a, b) == IF JsLess(a, b) THEN b ELSE a

\* Mutant: the delay is only capped from above.
validateDelayNoFloor(delay) ==
  IF delay.type # "number" \/ delay.kind = "NaN"
  THEN JsNumber(defaultDelay)
  ELSE MathMin(JsNumber(maxDelay), delay)

\* validateDelay(delay) of config.js
validateDelay(delay) ==
  IF delay.type # "number" \/ delay.kind = "NaN"
  THEN JsNumber(defaultDelay)
  ELSE MathMax(JsNumber(minDelay), MathMin(JsNumber(maxDelay), delay))

\* ------------------------------------------------ the background script
\* The strings a urls array is made of.
RawUrls == {"https://a.example/p", "http://b.example/q", "ftp://c.example/r", "not a url"}

\* new URL(url): whether it parses, and the protocol it has.
ParseUrl(url) ==
  CASE url = "https://a.example/p" -> [ok |-> TRUE, protocol |-> "https:"]
    [] url = "http://b.example/q" -> [ok |-> TRUE, protocol |-> "http:"]
    [] url = "ftp://c.example/r" -> [ok |-> TRUE, protocol |-> "ftp:"]
    [] OTHER -> [ok |-> FALSE, protocol |-> ""]

\* isValidUrl(url)
isValidUrl(url) ==
  LET parsed == ParseUrl(url)
  IN parsed.ok /\ (parsed.protocol = "http:" \/ parsed.protocol = "https:")

\* The URLs a batch can hold.
BatchUrls == {u \in RawUrls : ParseUrl(u).ok}

\* All sequences over S of length at most n.
SeqsUpTo(S, n) == UNION {[1..k -> S] : k \in 0..n}

\* Mutant: duplicates are kept.
UniqueKeepsAll(seq) == seq

\* [...new Set(seq)]: the elements of seq without repetition, in the order of
\* their first occurrence.
RECURSIVE Unique(_)
Unique(seq) ==
  IF seq = <<>>
  THEN <<>>
  ELSE LET init == Unique(SubSeq(seq, 1, Len(seq) - 1))
           last == seq[Len(seq)]
       IN IF \E k \in DOMAIN init : init[k] = last THEN init ELSE Append(init, last)

\* The data of a PROCESS_URLS message: urls (an array or something else) and delay.
RequestData(isArray, elems, delay) ==
  [urls |-> [isArray |-> isArray, elems |-> elems], delay |-> delay]

\* The delay fields a request comes with.
RequestDelays == {Undefined, JsNumber(50)}

\* The requests a popup (or anyone) can send.
Requests ==
  {RequestData(TRUE, elems, d) : elems \in SeqsUpTo(RawUrls, MaxUrls), d \in RequestDelays}
    \cup {RequestData(FALSE, <<>>, d) : d \in RequestDelays}

NoRequest == RequestData(FALSE, <<>>, Undefined)

\* currentBatch = null (a batch always has a URL).
NoBatch == [urls |-> <<>>, delay |-> Undefined, total |-> 0, current |-> 0, results |-> <<>>]

\* The response of handleProcessUrls.
Accepted(total, delay) == [success |-> TRUE, error |-> "", total |-> total, delay |-> delay]
Refused(error) == [success |-> FALSE, error |-> error, total |-> 0, delay |-> Undefined]
NoResponse == Refused("")

ErrNoUrls == "No URLs provided"
ErrBatchInProgress == "Batch already in progress"
ErrNoValidUrls == "No valid URLs provided"
ErrProcessPrefix == "Failed to process URL: "
ErrAnalysisTimeout == "Analysis timeout"
ErrTabCreate == "Tab creation failed"
ErrNoReceiver == "Could not establish connection"
ErrNoMedia == "No hero media found"

\* A result of a URL (error |-> "" stands for the absent field).
UrlResult(url, status, error) == [url |-> url, status |-> status, error |-> error]

\* How the try/catch of processUrl ended.
Returned(result) == [thrown |-> FALSE, result |-> result]
Thrown(url, message) ==
  [thrown |-> TRUE, result |-> UrlResult(url, "failed", ErrProcessPrefix \o message)]
NotSettled == [thrown |-> FALSE, result |-> UrlResult("", "", "")]

\* The data of a BATCH_COMPLETE message.
Completion(batchResults, total) ==
  [total |-> total,
   successful |-> Cardinality({k \in DOMAIN batchResults : batchResults[k].status = "success"}),
   failed |-> Cardinality({k \in DOMAIN batchResults : batchResults[k].status = "failed"}),
   results |-> batchResults]

NoCompletion == [total |-> 0, successful |-> 0, failed |-> 0, results |-> <<>>]

\* A step that handles no PROCESS_URLS request.
NoRequestHandled == request' = NoRequest /\ response' = NoResponse

\* A report of the content script.
Report(url, kind) == [url |-> url, kind |-> kind]

BatchInit ==
  /\ currentBatch = NoBatch
  /\ batchProcessing = FALSE
  /\ batchPc = "idle"
  /\ tabId = NULL
  /\ settled = NotSettled
  /\ openTabs = {}
  /\ resolvers = {}
  /\ analysisTimers = {}
  /\ asked = {}
  /\ reports = {}
  /\ handlers = [u \in BatchUrls |-> 0]
  /\ requests = 0
  /\ request = NoRequest
  /\ response = NoResponse
  /\ batchComplete = NoCompletion

\* No function has been applied.
PureIdle ==
  /\ fn = ""
  /\ arg = <<>>
  /\ vals = <<>>

\* No tab is looked into.
NoDocument == [page |-> [location |-> <<>>, article |-> FALSE, indicators |-> FALSE,
                         elements |-> <<>>],
               readyState |-> ""]

ContentIdle ==
  /\ document = NoDocument
  /\ contentPc = "unloaded"
  /\ mediaResults = <<>>
  /\ sent = <<>>

\* The state after construction: a new queue, the background script loaded.
Init == QueueInit /\ BatchInit /\ PureIdle /\ ContentIdle

\* --------------------------------------------------- the queue's own flow
\* Mutant: the attempt is recorded one-based (`item.retryCount = attempt + 1`).
StartAttemptOneBased(p, i, k, its) ==
  /\ items' = [its EXCEPT ![i].retryCount = k + 1, ![i].status = "downloading"]
  /\ attempt' = [attempt EXCEPT ![p] = k]
  /\ curItem' = [curItem EXCEPT ![p] = i]
  /\ downloadCalls' = [downloadCalls EXCEPT ![its[i].media] = @ + 1]
  /\ pc' = [pc EXCEPT ![p] = "starting"]

\* One loop iteration of downloadWithRetry up to its first await: record the
\* attempt on the item and hand the request to the transport.
StartAttempt(p, i, k, its) ==
  /\ items' = [its EXCEPT ![i].retryCount = k, ![i].status = "downloading"]
  /\ attempt' = [attempt EXCEPT ![p] = k]
  /\ curItem' = [curItem EXCEPT ![p] = i]
  /\ downloadCalls' = [downloadCalls EXCEPT ![its[i].media] = @ + 1]
  /\ pc' = [pc EXCEPT ![p] = "starting"]

\* Mutant: the loop takes the newest pending item (`queue.pop()`).
DrainLifo(p, q, rs, its, ip) ==
  /\ results' = rs
  /\ IF Len(q) > 0
     THEN /\ queue' = SubSeq(q, 1, Len(q) - 1)
          /\ dequeued' = [dequeued EXCEPT ![p] = Append(@, q[Len(q)])]
          /\ currentDownload' = q[Len(q)]
          /\ isProcessing' = ip
          /\ ret' = ret
          /\ StartAttempt(p, q[Len(q)], 0, its)
     ELSE /\ queue' = q
          /\ dequeued' = dequeued
          /\ currentDownload' = IF pc[p] = "idle" THEN currentDownload ELSE NULL
          /\ isProcessing' = FALSE
          /\ ret' = [ret EXCEPT ![p] = [value |-> rs, error |-> ""]]
          /\ items' = its
          /\ attempt' = [attempt EXCEPT ![p] = 0]
          /\ curItem' = [curItem EXCEPT ![p] = NULL]
          /\ pc' = [pc EXCEPT ![p] = "done"]
          /\ UNCHANGED downloadCalls

\* Mutant: process() does not reset currentDownload when its loop ends.
DrainKeepsCurrent(p, q, rs, its, ip) ==
  /\ results' = rs
  /\ IF Len(q) > 0
     THEN /\ queue' = Tail(q)
          /\ dequeued' = [dequeued EXCEPT ![p] = Append(@, Head(q))]
          /\ currentDownload' = Head(q)
          /\ isProcessing' = ip
          /\ ret' = ret
          /\ StartAttempt(p, Head(q), 0, its)
     ELSE /\ queue' = q
          /\ dequeued' = dequeued
          /\ currentDownload' = currentDownload
          /\ isProcessing' = FALSE
          /\ ret' = [ret EXCEPT ![p] = [value |-> rs, error |-> ""]]
          /\ items' = its
          /\ attempt' = [attempt EXCEPT ![p] = 0]
          /\ curItem' = [curItem EXCEPT ![p] = NULL]
          /\ pc' = [pc EXCEPT ![p] = "done"]
          /\ UNCHANGED downloadCalls

\* The drain loop of process() from its `while` test on, with the pending
\* list q, the results rs, the items its and the flag ip as they are now.
\* The reset of currentDownload is the last statement of an iteration: a call
\* that finds the list empty (pc[p] = "idle": no iteration ran) leaves it.
Drain(p, q, rs, its, ip) ==
  /\ results' = rs
  /\ IF Len(q) > 0
     THEN /\ queue' = Tail(q)
          /\ dequeued' = [dequeued EXCEPT ![p] = Append(@, Head(q))]
          /\ currentDownload' = Head(q)
          /\ isProcessing' = ip
          /\ ret' = ret
          /\ StartAttempt(p, Head(q), 0, its)
     ELSE /\ queue' = q
          /\ dequeued' = dequeued
          /\ currentDownload' = IF pc[p] = "idle" THEN currentDownload ELSE NULL
          /\ isProcessing' = FALSE
          /\ ret' = [ret EXCEPT ![p] = [value |-> rs, error |-> ""]]
          /\ items' = its
          /\ attempt' = [attempt EXCEPT ![p] = 0]
          /\ curItem' = [curItem EXCEPT ![p] = NULL]
          /\ pc' = [pc EXCEPT ![p] = "done"]
          /\ UNCHANGED downloadCalls

\* The attempt of invocation p succeeded: downloadWithRetry marks the item and
\* returns its result, process() records it and loops. (waitForDownload only
\* ever resolves with true, so the `else throw` of downloadWithRetry is dead.)
AttemptSucceeded(p, tm) ==
  LET i == curItem[p]
      its == [items EXCEPT ![i].status = "completed"]
  IN /\ timers' = tm
     /\ Drain(p, queue, Append(results, CompletedResult(items[i].media, downloadId[p])),
              its, isProcessing)

\* Mutant: process() has no catch block, so the error of the last attempt
\* rejects the whole call.
AttemptFailedAborts(p, err, tm) ==
  IF MayRetry(attempt[p])
  THEN /\ timers' = tm \cup {SleepTimer(p, RetryDelay(attempt[p]))}
       /\ pc' = [pc EXCEPT ![p] = "sleeping"]
       /\ UNCHANGED <<items, queue, isProcessing, currentDownload, results, curItem,
                      attempt, ret, dequeued, downloadCalls>>
  ELSE /\ timers' = tm
       /\ pc' = [pc EXCEPT ![p] = "rejected"]
       /\ ret' = [ret EXCEPT ![p] = [value |-> <<>>, error |-> err]]
       /\ UNCHANGED <<items, queue, isProcessing, currentDownload, results, curItem,
                      attempt, dequeued, downloadCalls>>

\* The attempt of invocation p failed with message err: the catch block of
\* downloadWithRetry, and on the last attempt the catch block of process().
AttemptFailed(p, err, tm) ==
  IF MayRetry(attempt[p])
  THEN /\ timers' = tm \cup {SleepTimer(p, RetryDelay(attempt[p]))}
       /\ pc' = [pc EXCEPT ![p] = "sleeping"]
       /\ UNCHANGED <<items, queue, isProcessing, currentDownload, results, curItem,
                      attempt, ret, dequeued, downloadCalls>>
  ELSE /\ timers' = tm
       /\ Drain(p, queue, Append(results, FailedResult(items[curItem[p]].media, err)),
                items, isProcessing)

\* ------------------------------------------------------ calls of a caller
\* Mutant: add() puts the new items in front of the pending ones (`unshift`).
AddInFront(n, sourceUrl) ==
  /\ UNCHANGED notQueue
  /\ Len(items) + n <= MaxItems
  /\ LET first == Len(items)
         new == [k \in 1..n |-> QueueItem(first + k, sourceUrl)]
     IN /\ items' = items \o new
        /\ queue' = [k \in 1..n |-> first + k] \o queue
        /\ downloadCalls' = downloadCalls \o [k \in 1..n |-> 0]
  /\ UNCHANGED <<isProcessing, currentDownload, results, pc, curItem, attempt, downloadId,
                 ret, dequeued, invoked, cleared, transfers, listeners, timers>>

\* add(mediaItems, sourceUrl) with n fresh media objects.
Add(n, sourceUrl) ==
  /\ UNCHANGED notQueue
  /\ Len(items) + n <= MaxItems
  /\ LET first == Len(items)
         new == [k \in 1..n |-> QueueItem(first + k, sourceUrl)]
     IN /\ items' = items \o new
        /\ queue' = queue \o [k \in 1..n |-> first + k]
        /\ downloadCalls' = downloadCalls \o [k \in 1..n |-> 0]
  /\ UNCHANGED <<isProcessing, currentDownload, results, pc, curItem, attempt, downloadId,
                 ret, dequeued, invoked, cleared, transfers, listeners, timers>>

\* Mutant: a call made while processing is silently ignored (it resolves
\* with nothing) instead of being rejected.
ProcessIgnoring ==
  /\ UNCHANGED notQueue
  /\ invoked < MaxCalls
  /\ invoked' = invoked + 1
  /\ LET p == invoked + 1
     IN IF isProcessing
        THEN /\ pc' = [pc EXCEPT ![p] = "done"]
             /\ UNCHANGED <<items, queue, isProcessing, currentDownload, results, curItem,
                            attempt, ret, dequeued, downloadCalls>>
        ELSE Drain(p, queue, <<>>, items, TRUE)
  /\ UNCHANGED <<downloadId, cleared, transfers, listeners, timers>>

\* Mutant: process() without its guard.
ProcessUnguarded ==
  /\ UNCHANGED notQueue
  /\ invoked < MaxCalls
  /\ invoked' = invoked + 1
  /\ Drain(invoked + 1, queue, <<>>, items, TRUE)
  /\ UNCHANGED <<downloadId, cleared, transfers, listeners, timers>>

\* process(): the guard, then the drain loop up to its first await.
Process ==
  /\ UNCHANGED notQueue
  /\ invoked < MaxCalls
  /\ invoked' = invoked + 1
  /\ LET p == invoked + 1
     IN IF isProcessing
        THEN /\ pc' = [pc EXCEPT ![p] = "rejected"]
             /\ ret' = [ret EXCEPT ![p] = [value |-> <<>>, error |-> ErrAlreadyProcessing]]
             /\ UNCHANGED <<items, queue, isProcessing, currentDownload, results, curItem,
                            attempt, dequeued, downloadCalls>>
        ELSE Drain(p, queue, <<>>, items, TRUE)
  /\ UNCHANGED <<downloadId, cleared, transfers, listeners, timers>>

\* Mutant: clear() empties the lists but leaves the processing flag alone.
ClearKeepsFlag ==
  /\ UNCHANGED notQueue
  /\ cleared < MaxClears
  /\ cleared' = cleared + 1
  /\ queue' = <<>>
  /\ results' = <<>>
  /\ currentDownload' = NULL
  /\ UNCHANGED <<items, isProcessing, pc, curItem, attempt, downloadId, ret, dequeued,
                 invoked, transfers, listeners, timers, downloadCalls>>

\* Mutant: clear() also aborts the attempt in flight (its timer and its
\* listener are dropped).
ClearAborting ==
  /\ UNCHANGED notQueue
  /\ cleared < MaxClears
  /\ cleared' = cleared + 1
  /\ queue' = <<>>
  /\ results' = <<>>
  /\ currentDownload' = NULL
  /\ isProcessing' = FALSE
  /\ timers' = {}
  /\ listeners' = {}
  /\ UNCHANGED <<items, pc, curItem, attempt, downloadId, ret, dequeued, invoked,
                 transfers, downloadCalls>>

\* clear()
Clear ==
  /\ UNCHANGED notQueue
  /\ cleared < MaxClears
  /\ cleared' = cleared + 1
  /\ queue' = <<>>
  /\ results' = <<>>
  /\ currentDownload' = NULL
  /\ isProcessing' = FALSE
  /\ UNCHANGED <<items, pc, curItem, attempt, downloadId, ret, dequeued, invoked,
                 transfers, listeners, timers, downloadCalls>>

\* ------------------------------------------------------------ the transport
\* browser.downloads.download() accepts the request of invocation p: the
\* transfer exists from now on; its id is on its way to the queue.
DownloadAccepted(p) ==
  /\ UNCHANGED notQueue
  /\ pc[p] = "starting"
  /\ Len(transfers) < MaxTransfers
  /\ pc' = [pc EXCEPT ![p] = "started"]
  /\ downloadId' = [downloadId EXCEPT ![p] = Len(transfers) + 1]
  /\ transfers' = Append(transfers, Transfer("in_progress", ""))
  /\ UNCHANGED <<items, queue, isProcessing, currentDownload, results, curItem, attempt,
                 ret, dequeued, invoked, cleared, listeners, timers, downloadCalls>>

\* browser.downloads.download() rejects the request of invocation p:
\* downloadFile rethrows, which fails the attempt.
DownloadRejected(p, reason) ==
  /\ UNCHANGED notQueue
  /\ pc[p] = "starting"
  /\ AttemptFailed(p, ErrStartPrefix \o reason, timers)
  /\ UNCHANGED <<downloadId, invoked, cleared, transfers, listeners>>

\* The id reaches the queue: downloadFile returns it and waitForDownload arms
\* the timeout and subscribes its listener.
WaitForDownload(p) ==
  /\ UNCHANGED notQueue
  /\ pc[p] = "started"
  /\ pc' = [pc EXCEPT ![p] = "waiting"]
  /\ timers' = timers \cup {TimeoutTimer(p, downloadId[p])}
  /\ listeners' = listeners \cup {downloadId[p]}
  /\ UNCHANGED <<items, queue, isProcessing, currentDownload, results, curItem, attempt,
                 downloadId, ret, dequeued, invoked, cleared, transfers, downloadCalls>>

\* A change the transport reports (the delta handed to onChanged listeners;
\* state |-> "" and error |-> "" stand for absent fields).
Delta(id, state, error) == [id |-> id, state |-> state, error |-> error]

\* onChanged calls every subscribed listener with delta. A listener whose id
\* matches settles its attempt on a 'complete' state or, failing that, on an
\* error, clearing its timer and unsubscribing itself; any other delta it
\* ignores. Transfer ids are unique, so at most one listener matches and at
\* most one invocation waits on it.
OnChanged(delta) ==
  LET settling == delta.state = "complete" \/ delta.error # ""
      matching == {l \in listeners : ListenerMatches(l, delta.id) /\ settling}
      waiters == {p \in Calls : pc[p] = "waiting" /\ downloadId[p] \in matching}
      tm == {tt \in timers : ~(tt.kind = "timeout" /\ tt.id \in matching)}
  IN /\ listeners' = listeners \ matching
     /\ IF waiters = {}
        THEN /\ timers' = tm
             /\ UNCHANGED <<items, queue, isProcessing, currentDownload, results, pc,
                            curItem, attempt, downloadId, ret, dequeued, downloadCalls>>
        ELSE \E p \in waiters :
               /\ downloadId' = [downloadId EXCEPT ![p] = NULL]
               /\ IF delta.state = "complete"
                  THEN AttemptSucceeded(p, tm)
                  ELSE AttemptFailed(p, delta.error, tm)

\* The transport reports transfer t complete.
TransferCompletes(t) ==
  /\ UNCHANGED notQueue
  /\ t \in outstanding
  /\ transfers' = [transfers EXCEPT ![t] = Transfer("complete", "")]
  /\ OnChanged(Delta(t, "complete", ""))
  /\ UNCHANGED <<invoked, cleared>>

\* The transport reports transfer t failed with an error code.
TransferFails(t, code) ==
  /\ UNCHANGED notQueue
  /\ t \in outstanding
  /\ transfers' = [transfers EXCEPT ![t] = Transfer("interrupted", code)]
  /\ OnChanged(Delta(t, "interrupted", code))
  /\ UNCHANGED <<invoked, cleared>>

\* The transport reports a change of transfer t that does not end it (its
\* filename, its size, ...).
TransferChanges(t) ==
  /\ UNCHANGED notQueue
  /\ t \in outstanding
  /\ OnChanged(Delta(t, "", ""))
  /\ UNCHANGED <<invoked, cleared, transfers>>

\* The transport reports the end of a download the queue never requested.
ForeignEvent(state, error) ==
  /\ UNCHANGED notQueue
  /\ OnChanged(Delta(ForeignId, state, error))
  /\ UNCHANGED <<invoked, cleared, transfers>>

\* ---------------------------------------------------------------- timers
\* Mutant: a timeout gives the item up at once instead of going through the
\* retry handling of the catch block.
TimeoutFiresFatal(tt) ==
  /\ UNCHANGED notQueue
  /\ tt \in timers
  /\ tt.kind = "timeout"
  /\ IF pc[tt.call] = "waiting" /\ downloadId[tt.call] = tt.id
     THEN /\ downloadId' = [downloadId EXCEPT ![tt.call] = NULL]
          /\ timers' = timers \ {tt}
          /\ Drain(tt.call, queue,
                   Append(results, FailedResult(items[curItem[tt.call]].media, ErrTimeout)),
                   items, isProcessing)
     ELSE /\ timers' = timers \ {tt}
          /\ UNCHANGED <<items, queue, isProcessing, currentDownload, results, pc, curItem,
                         attempt, downloadId, ret, dequeued, downloadCalls>>
  /\ UNCHANGED <<invoked, cleared, transfers, listeners>>

\* Mutant: the 60 s timer of waitForDownload is dropped without rejecting the
\* attempt (a waitForDownload without its timeout).
TimeoutFiresSilent(tt) ==
  /\ UNCHANGED notQueue
  /\ tt \in timers
  /\ tt.kind = "timeout"
  /\ timers' = timers \ {tt}
  /\ UNCHANGED <<items, queue, isProcessing, currentDownload, results, pc, curItem,
                 attempt, downloadId, ret, dequeued, downloadCalls>>
  /\ UNCHANGED <<invoked, cleared, transfers, listeners>>

\* The 60 s timer of waitForDownload fires: the attempt is rejected. The
\* listener stays subscribed and the transfer is not cancelled.
TimeoutFires(tt) ==
  /\ UNCHANGED notQueue
  /\ tt \in timers
  /\ tt.kind = "timeout"
  /\ IF pc[tt.call] = "waiting" /\ downloadId[tt.call] = tt.id
     THEN /\ downloadId' = [downloadId EXCEPT ![tt.call] = NULL]
          /\ AttemptFailed(tt.call, ErrTimeout, timers \ {tt})
     ELSE /\ timers' = timers \ {tt}
          /\ UNCHANGED <<items, queue, isProcessing, currentDownload, results, pc, curItem,
                         attempt, downloadId, ret, dequeued, downloadCalls>>
  /\ UNCHANGED <<invoked, cleared, transfers, listeners>>

\* The backoff timer of sleep() fires: the next iteration of the retry loop.
SleepFires(tt) ==
  /\ UNCHANGED notQueue
  /\ tt \in timers
  /\ tt.kind = "sleep"
  /\ pc[tt.call] = "sleeping"
  /\ timers' = timers \ {tt}
  /\ StartAttempt(tt.call, curItem[tt.call], attempt[tt.call] + 1, items)
  /\ UNCHANGED <<queue, isProcessing, currentDownload, results, downloadId, ret, dequeued,
                 invoked, cleared, transfers, listeners>>

\* Callers that add and process; the transport and the timers are free.
Next ==
  \/ \E n \in 1..MaxItems, src \in SourceUrls : Add(n, src)
  \/ Process
  \/ \E p \in Calls : DownloadAccepted(p)
  \/ \E p \in Calls, reason \in RequestErrors : DownloadRejected(p, reason)
  \/ \E p \in Calls : WaitForDownload(p)
  \/ \E t \in outstanding : TransferCompletes(t)
  \/ \E t \in outstanding, code \in ErrorCodes : TransferFails(t, code)
  \/ \E t \in outstanding : TransferChanges(t)
  \/ ForeignEvent("complete", "")
  \/ \E code \in ErrorCodes : ForeignEvent("interrupted", code)
  \/ \E tt \in timers : TimeoutFires(tt)
  \/ \E tt \in timers : SleepFires(tt)

Spec == Init /\ [][Next]_vars

\* Callers that also call clear(), at any time.
NextClear == Next \/ Clear

SpecClear == Init /\ [][NextClear]_vars

\* What the host owes the queue: every download() request is answered, the
\* continuation of an answered request runs, and every pending timer fires.
\* The transport owes no event.
QueueProgress ==
  \/ \E p \in Calls : DownloadAccepted(p)
  \/ \E p \in Calls, reason \in RequestErrors : DownloadRejected(p, reason)
  \/ \E p \in Calls : WaitForDownload(p)
  \/ \E tt \in timers : TimeoutFires(tt)
  \/ \E tt \in timers : SleepFires(tt)

SpecFair == Spec /\ WF_vars(QueueProgress)

SpecClearFair == SpecClear /\ WF_vars(QueueProgress)

\* ------------------------------------------------- the background script
\* finalizeBatch() for the batch b whose loop has ended.
FinalizeBatch(b) ==
  /\ batchComplete' = Completion(b.results, b.total)
  /\ currentBatch' = NoBatch
  /\ batchProcessing' = FALSE
  /\ batchPc' = "idle"

\* Mutant: the catch block of processBatch gives the batch up (no result for
\* the URL that failed, none for the URLs after it).
UrlEndsAborting(how) ==
  LET b == currentBatch
  IN IF how.thrown
     THEN FinalizeBatch(b)
     ELSE LET pushed == [b EXCEPT !.results = Append(@, how.result)]
          IN IF b.current = Len(b.urls)
             THEN FinalizeBatch(pushed)
             ELSE /\ currentBatch' = pushed
                  /\ batchPc' = "delaying"
                  /\ batchComplete' = NoCompletion
                  /\ UNCHANGED batchProcessing

\* processBatch once processUrl has settled (how): the result is pushed; after
\* the last URL the batch is finalized; otherwise the loop sleeps the delay
\* (try block) or goes straight on to the next URL (catch block), up to the
\* await of tabs.create.
UrlEnds(how) ==
  LET b == currentBatch
      pushed == [b EXCEPT !.results = Append(@, how.result)]
  IN IF b.current = Len(b.urls)
     THEN FinalizeBatch(pushed)
     ELSE /\ currentBatch' = IF how.thrown THEN [pushed EXCEPT !.current = @ + 1] ELSE pushed
          /\ batchPc' = IF how.thrown THEN "creating" ELSE "delaying"
          /\ batchComplete' = NoCompletion
          /\ UNCHANGED batchProcessing

\* The URL processUrl is working on.
currentUrl == currentBatch.urls[currentBatch.current]

\* Mutant: the busy test is missing.
handleProcessUrlsNoGuard(data) ==
  /\ requests < MaxRequests
  /\ requests' = requests + 1
  /\ request' = data
  /\ LET delay == IF data.delay.type = "undefined" THEN JsNumber(defaultDelay) ELSE data.delay
         validatedDelay == validateDelay(delay)
         uniqueUrls == Unique(SelectSeq(data.urls.elems, isValidUrl))
     IN IF ~data.urls.isArray \/ Len(data.urls.elems) = 0
        THEN /\ response' = Refused(ErrNoUrls)
             /\ UNCHANGED <<currentBatch, batchProcessing, batchPc>>
        ELSE IF Len(uniqueUrls) = 0
        THEN /\ response' = Refused(ErrNoValidUrls)
             /\ UNCHANGED <<currentBatch, batchProcessing, batchPc>>
        ELSE /\ currentBatch' = [urls |-> uniqueUrls, delay |-> validatedDelay,
                                 total |-> Len(uniqueUrls), current |-> 1, results |-> <<>>]
             /\ batchProcessing' = TRUE
             /\ batchPc' = "creating"
             /\ response' = Accepted(Len(uniqueUrls), validatedDelay)
  /\ UNCHANGED <<tabId, settled, openTabs, resolvers, analysisTimers, asked,
                 reports, handlers>>
  /\ batchComplete' = NoCompletion
  /\ UNCHANGED notBatch

\* handleProcessUrls(data), with the part of processBatch() it runs before
\* it returns: the first iteration up to the await of tabs.create.
handleProcessUrls(data) ==
  /\ requests < MaxRequests
  /\ requests' = requests + 1
  /\ request' = data
  /\ LET delay == IF data.delay.type = "undefined" THEN JsNumber(defaultDelay) ELSE data.delay
         validatedDelay == validateDelay(delay)
         uniqueUrls == Unique(SelectSeq(data.urls.elems, isValidUrl))
     IN IF ~data.urls.isArray \/ Len(data.urls.elems) = 0
        THEN /\ response' = Refused(ErrNoUrls)
             /\ UNCHANGED <<currentBatch, batchProcessing, batchPc>>
        ELSE IF batchProcessing
        THEN /\ response' = Refused(ErrBatchInProgress)
             /\ UNCHANGED <<currentBatch, batchProcessing, batchPc>>
        ELSE IF Len(uniqueUrls) = 0
        THEN /\ response' = Refused(ErrNoValidUrls)
             /\ UNCHANGED <<currentBatch, batchProcessing, batchPc>>
        ELSE /\ currentBatch' = [urls |-> uniqueUrls, delay |-> validatedDelay,
                                 total |-> Len(uniqueUrls), current |-> 1, results |-> <<>>]
             /\ batchProcessing' = TRUE
             /\ batchPc' = "creating"
             /\ response' = Accepted(Len(uniqueUrls), validatedDelay)
  /\ UNCHANGED <<tabId, settled, openTabs, resolvers, analysisTimers, asked,
                 reports, handlers>>
  /\ batchComplete' = NoCompletion
  /\ UNCHANGED notBatch

\* tabs.create resolves: the tab is open and processUrl sleeps 1000 ms.
TabCreated ==
  /\ batchPc = "creating"
  /\ LET id == 1 + Cardinality(openTabs)
     IN /\ tabId' = id
        /\ openTabs' = openTabs \cup {id}
  /\ batchPc' = "loading"
  /\ UNCHANGED <<currentBatch, batchProcessing, settled, resolvers,
                 analysisTimers, asked, reports, handlers, requests>>
  /\ NoRequestHandled
  /\ batchComplete' = NoCompletion
  /\ UNCHANGED notBatch

\* tabs.create rejects: the catch block rethrows, the finally block has no
\* tab to close, and processBatch records the error.
TabCreateFails ==
  /\ batchPc = "creating"
  /\ UrlEnds(Thrown(currentUrl, ErrTabCreate))
  /\ UNCHANGED <<tabId, settled, openTabs, resolvers, analysisTimers, asked, reports,
                 handlers, requests>>
  /\ NoRequestHandled
  /\ UNCHANGED notBatch

\* sleep(1000) ends: ANALYZE_PAGE is sent to the tab.
LoadWaitEnds ==
  /\ batchPc = "loading"
  /\ batchPc' = "sending"
  /\ asked' = asked \cup {currentUrl}
  /\ UNCHANGED <<currentBatch, batchProcessing, tabId, settled, openTabs,
                 resolvers, analysisTimers, reports, handlers, requests>>
  /\ NoRequestHandled
  /\ batchComplete' = NoCompletion
  /\ UNCHANGED notBatch

\* The content script of the tab of url ends its analysis and sends its one
\* report: MEDIA_DETECTED ("media") or ANALYSIS_FAILED ("failed").
ContentReports(url, kind) ==
  /\ url \in asked
  /\ asked' = asked \ {url}
  /\ reports' = reports \cup {Report(url, kind)}
  /\ UNCHANGED <<currentBatch, batchProcessing, batchPc, tabId, settled,
                 openTabs, resolvers, analysisTimers, handlers, requests>>
  /\ NoRequestHandled
  /\ batchComplete' = NoCompletion
  /\ UNCHANGED notBatch

\* tabs.sendMessage rejects (no content script in the tab): the catch block
\* rethrows and the finally block starts to close the tab.
SendMessageRejects ==
  /\ batchPc = "sending"
  /\ currentUrl \in asked
  /\ asked' = asked \ {currentUrl}
  /\ settled' = Thrown(currentUrl, ErrNoReceiver)
  /\ batchPc' = "closing"
  /\ UNCHANGED <<currentBatch, batchProcessing, tabId, openTabs, resolvers,
                 analysisTimers, reports, handlers, requests>>
  /\ NoRequestHandled
  /\ batchComplete' = NoCompletion
  /\ UNCHANGED notBatch

\* tabs.sendMessage resolves: waitForAnalysisResult stores the resolver of the
\* URL and arms its 30 s timer.
SendMessageResolves ==
  /\ batchPc = "sending"
  /\ resolvers' = resolvers \cup {currentUrl}
  /\ analysisTimers' = analysisTimers \cup {currentUrl}
  /\ batchPc' = "awaiting"
  /\ UNCHANGED <<currentBatch, batchProcessing, tabId, settled, openTabs,
                 asked, reports, handlers, requests>>
  /\ NoRequestHandled
  /\ batchComplete' = NoCompletion
  /\ UNCHANGED notBatch

\* resolveAnalysis(url, result): the entry of the URL, if there is one, is
\* deleted and its timer cleared; processUrl gets the result if it is the one
\* waiting on that entry. Then the finally block starts to close the tab.
resolveAnalysis(url, result) ==
  /\ resolvers' = resolvers \ {url}
  /\ analysisTimers' = IF url \in resolvers THEN analysisTimers \ {url} ELSE analysisTimers
  /\ IF url \in resolvers /\ batchPc = "awaiting" /\ currentUrl = url
     THEN /\ settled' = Returned(result)
          /\ batchPc' = "closing"
     ELSE UNCHANGED <<settled, batchPc>>

\* handleAnalysisFailed(data) for a report that arrived.
handleAnalysisFailed(r) ==
  /\ r \in reports
  /\ r.kind = "failed"
  /\ reports' = reports \ {r}
  /\ resolveAnalysis(r.url, UrlResult(r.url, "failed", ErrNoMedia))
  /\ UNCHANGED <<currentBatch, batchProcessing, tabId, openTabs, asked,
                 handlers, requests>>
  /\ NoRequestHandled
  /\ batchComplete' = NoCompletion
  /\ UNCHANGED notBatch

\* handleMediaDetected(data) for a report that arrived, up to its await: a
\* queue is created, filled and its process() called.
handleMediaDetected(r) ==
  /\ r \in reports
  /\ r.kind = "media"
  /\ reports' = reports \ {r}
  /\ handlers' = [handlers EXCEPT ![r.url] = @ + 1]
  /\ UNCHANGED <<currentBatch, batchProcessing, batchPc, tabId, settled, openTabs,
                 resolvers, analysisTimers, asked, requests>>
  /\ NoRequestHandled
  /\ batchComplete' = NoCompletion
  /\ UNCHANGED notBatch

\* The process() call of a handleMediaDetected for url resolves, with every
\* item completed (allCompleted) or with some item failed: the handler builds
\* the result of the URL and resolves the analysis.
DownloadsEnd(url, allCompleted) ==
  /\ handlers[url] > 0
  /\ handlers' = [handlers EXCEPT ![url] = @ - 1]
  /\ resolveAnalysis(url, UrlResult(url, IF allCompleted THEN "success" ELSE "failed", ""))
  /\ UNCHANGED <<currentBatch, batchProcessing, tabId, openTabs, asked,
                 reports, requests>>
  /\ NoRequestHandled
  /\ batchComplete' = NoCompletion
  /\ UNCHANGED notBatch

\* The 30 s timer of waitForAnalysisResult fires: the wait is rejected (its
\* entry stays in the map), the catch block rethrows and the finally block
\* starts to close the tab.
AnalysisTimeout(url) ==
  /\ url \in analysisTimers
  /\ analysisTimers' = analysisTimers \ {url}
  /\ IF batchPc = "awaiting" /\ currentUrl = url
     THEN /\ settled' = Thrown(url, ErrAnalysisTimeout)
          /\ batchPc' = "closing"
     ELSE UNCHANGED <<settled, batchPc>>
  /\ UNCHANGED <<currentBatch, batchProcessing, tabId, openTabs, resolvers,
                 asked, reports, handlers, requests>>
  /\ NoRequestHandled
  /\ batchComplete' = NoCompletion
  /\ UNCHANGED notBatch

\* sleep(tabCloseDelay) of the finally block ends: tabs.remove is requested.
CloseWaitEnds ==
  /\ batchPc = "closing"
  /\ batchPc' = "removing"
  /\ UNCHANGED <<currentBatch, batchProcessing, tabId, settled, openTabs,
                 resolvers, analysisTimers, asked, reports, handlers, requests>>
  /\ NoRequestHandled
  /\ batchComplete' = NoCompletion
  /\ UNCHANGED notBatch

\* tabs.remove settles (removed: the tab is gone, with its content script;
\* otherwise the error is logged): processUrl settles and processBatch goes on.
TabRemoveSettles(removed) ==
  /\ batchPc = "removing"
  /\ openTabs' = IF removed THEN openTabs \ {tabId} ELSE openTabs
  /\ asked' = IF removed THEN asked \ {currentUrl} ELSE asked
  /\ tabId' = NULL
  /\ settled' = NotSettled
  /\ UrlEnds(settled)
  /\ UNCHANGED <<resolvers, analysisTimers, reports, handlers, requests>>
  /\ NoRequestHandled
  /\ UNCHANGED notBatch

\* sleep(delay * 1000) between two URLs ends: the next iteration, up to the
\* await of tabs.create.
DelayEnds ==
  /\ batchPc = "delaying"
  /\ currentBatch' = [currentBatch EXCEPT !.current = @ + 1]
  /\ batchPc' = "creating"
  /\ UNCHANGED <<batchProcessing, tabId, settled, openTabs, resolvers,
                 analysisTimers, asked, reports, handlers, requests>>
  /\ NoRequestHandled
  /\ batchComplete' = NoCompletion
  /\ UNCHANGED notBatch

NextBatch ==
  \/ \E data \in Requests : handleProcessUrls(data)
  \/ TabCreated
  \/ TabCreateFails
  \/ LoadWaitEnds
  \/ \E u \in BatchUrls, kind \in {"media", "failed"} : ContentReports(u, kind)
  \/ SendMessageRejects
  \/ SendMessageResolves
  \/ \E r \in reports : handleAnalysisFailed(r)
  \/ \E r \in reports : handleMediaDetected(r)
  \/ \E u \in BatchUrls, allCompleted \in BOOLEAN : DownloadsEnd(u, allCompleted)
  \/ \E u \in analysisTimers : AnalysisTimeout(u)
  \/ CloseWaitEnds
  \/ \E removed \in BOOLEAN : TabRemoveSettles(removed)
  \/ DelayEnds

allVars == <<vars, batchVars, pureVars, contentVars>>

SpecBatch == Init /\ [][NextBatch]_allVars

\* A step of processBatch/processUrl itself: a reply of the host to the call
\* it awaits, or the timer it sleeps on or waits with.
BatchProgress ==
  \/ TabCreated
  \/ TabCreateFails
  \/ LoadWaitEnds
  \/ SendMessageRejects
  \/ SendMessageResolves
  \/ batchPc = "awaiting" /\ AnalysisTimeout(currentUrl)
  \/ CloseWaitEnds
  \/ \E removed \in BOOLEAN : TabRemoveSettles(removed)
  \/ DelayEnds

\* The background script with a host that answers every call and fires
\* every timer.
SpecBatchFair == SpecBatch /\ WF_allVars(BatchProgress)

\* ------------------------------------------------------- pure functions
\* A string or null, as a function returns it.
JsNull == [isNull |-> TRUE, str |-> ""]
JsString(str) == [isNull |-> FALSE, str |-> str]

\* The delays validateDelay is applied to: the numbers from MaxExcess halves
\* below minDelay to MaxExcess halves above maxDelay, NaN, the infinities,
\* and values that are not numbers.
DelayInputs ==
  {JsHalves(h) : h \in (minDelay * PerUnit - MaxExcess)..(maxDelay * PerUnit + MaxExcess)}
    \cup {JsNaN, JsInfinity, JsNegInfinity}
    \cup {JsOther(t) : t \in {"undefined", "object", "string", "boolean"}}

\* One source of a srcset: its URL and its descriptor, character by character.
SrcsetEntry(url, descriptor) == [url |-> url, descriptor |-> descriptor]

SrcsetUrls == {"a.jpg", "b.jpg"}
Descriptors == {<<>>, <<"1", "w">>, <<"2", "w">>, <<"1", "0", "w">>, <<"2", "x">>, <<"w">>}

\* The srcset lists getHighestResolutionFromSrcset is applied to (the empty
\* list is the empty attribute).
SrcsetInputs ==
  SeqsUpTo({SrcsetEntry(u, d) : u \in SrcsetUrls, d \in Descriptors}, MaxEntries)

DigitValue(c) ==
  CASE c = "0" -> 0 [] c = "1" -> 1 [] c = "2" -> 2 [] c = "3" -> 3 [] c = "4" -> 4
    [] c = "5" -> 5 [] c = "6" -> 6 [] c = "7" -> 7 [] c = "8" -> 8 [] c = "9" -> 9
    [] OTHER -> 0 - 1

\* parseInt(digits, 10) on a string of digits
RECURSIVE parseInt(_)
parseInt(digits) ==
  IF digits = <<>>
  THEN 0
  ELSE 10 * parseInt(SubSeq(digits, 1, Len(digits) - 1)) + DigitValue(digits[Len(digits)])

\* descriptor.match(/^(\d+)w$/) ? parseInt(match[1], 10) : 0
DescriptorWidth(descriptor) ==
  LET n == Len(descriptor)
  IN IF /\ n >= 2
        /\ descriptor[n] = "w"
        /\ \A k \in 1..(n - 1) : DigitValue(descriptor[k]) >= 0
     THEN parseInt(SubSeq(descriptor, 1, n - 1))
     ELSE 0

\* Mutant: a source goes in front of the sources of its own width.
InsertByWidthFirst(sorted, e) ==
  LET n == Cardinality({k \in DOMAIN sorted : sorted[k].width > e.width})
  IN SubSeq(sorted, 1, n) \o <<e>> \o SubSeq(sorted, n + 1, Len(sorted))

\* Where the stable sort by descending width puts e among the sources
\* sorted before it: behind every source at least as wide.
InsertByWidth(sorted, e) ==
  LET n == Cardinality({k \in DOMAIN sorted : sorted[k].width >= e.width})
  IN SubSeq(sorted, 1, n) \o <<e>> \o SubSeq(sorted, n + 1, Len(sorted))

\* sources.sort((a, b) => b.width - a.width)
RECURSIVE SortByWidth(_)
SortByWidth(sources) ==
  IF sources = <<>>
  THEN <<>>
  ELSE InsertByWidth(SortByWidth(SubSeq(sources, 1, Len(sources) - 1)), sources[Len(sources)])

\* getHighestResolutionFromSrcset(srcset)
getHighestResolutionFromSrcset(srcset) ==
  IF srcset = <<>>
  THEN JsNull
  ELSE LET sources == [k \in DOMAIN srcset |->
                         [url |-> srcset[k].url, width |-> DescriptorWidth(srcset[k].descriptor)]]
           sorted == SortByWidth(sources)
       IN IF sorted[1].url = "" THEN JsNull ELSE JsString(sorted[1].url)

\* ------------------------------------------------------------ URL strings
\* A string is kept as the sequence of its pieces: a scheme with its colon
\* ("https:"), one slash, or a run of other characters ("a"). null is a
\* value of its own.
Str(chars) == [isNull |-> FALSE, chars |-> chars]
NullStr == [isNull |-> TRUE, chars |-> <<>>]

UrlPieces == {"https:", "http:", "data:", "/", "a"}

\* The url arguments: null, the empty string and every string of pieces.
UrlInputs == {NullStr} \cup {Str(chars) : chars \in SeqsUpTo(UrlPieces, MaxPieces)}

\* window.location of the document: href, protocol and origin.
Location(href, protocol, origin) == [href |-> href, protocol |-> protocol, origin |-> origin]

HttpsPage ==
  Location(<<"https:", "/", "/", "example.com", "/", "page", "/", "index.html">>,
           <<"https:">>, <<"https:", "/", "/", "example.com">>)
HttpRoot ==
  Location(<<"http:", "/", "/", "example.com", "/">>,
           <<"http:">>, <<"http:", "/", "/", "example.com">>)
\* a page loaded from disk (the e2e fixtures are): its origin is opaque
FilePage ==
  Location(<<"file:", "/", "/", "/", "fixtures", "/", "page.html">>, <<"file:">>, <<"null">>)
Locations == {HttpsPage, HttpRoot, FilePage}

\* s.startsWith(prefix)
startsWith(s, prefix) == Len(s) >= Len(prefix) /\ SubSeq(s, 1, Len(prefix)) = prefix

\* s.lastIndexOf(piece): the zero-based index of the last occurrence, or -1
lastIndexOf(s, piece) ==
  LET ks == {k \in DOMAIN s : s[k] = piece}
  IN IF ks = {} THEN 0 - 1 ELSE (CHOOSE k \in ks : \A j \in ks : j <= k) - 1

\* s.substring(0, end)
substring0(s, end) == SubSeq(s, 1, end)

\* makeAbsoluteUrl(url) in a document whose window.location is location
makeAbsoluteUrl(url, location) ==
  IF url.isNull \/ url.chars = <<>>
  THEN url
  ELSE IF startsWith(url.chars, <<"http:", "/", "/">>) \/ startsWith(url.chars, <<"https:", "/", "/">>)
  THEN url
  ELSE IF startsWith(url.chars, <<"/", "/">>)
  THEN Str(location.protocol \o url.chars)
  ELSE IF startsWith(url.chars, <<"/">>)
  THEN Str(location.origin \o url.chars)
  ELSE Str(substring0(location.href, lastIndexOf(location.href, "/") + 1) \o url.chars)

\* ------------------------------------------------- geometry and scoring
\* What the analyzer reads from an element: its tag, its intrinsic size
\* (naturalWidth/Height of an image, videoWidth/Height of a video; 0 when
\* there is none), its bounding rectangle, its computed display and its
\* class attribute. visibility, opacity and offsetParent are those of a
\* displayed element unless display is "none".
Look(natural, rect, display, className) ==
  [natural |-> natural, rect |-> rect, display |-> display, className |-> className]

Dim(width, height) == [width |-> width, height |-> height]
Rect(left, top, width, height) == [left |-> left, top |-> top, width |-> width, height |-> height]
Size(width, height) == [width |-> width, height |-> height, area |-> width * height]

\* calculateElementSize(element)
calculateElementSize(element) ==
  IF element.tag \in {"img", "video"} /\ element.natural.width > 0 /\ element.natural.height > 0
  THEN Size(element.natural.width, element.natural.height)
  ELSE Size(element.rect.width, element.rect.height)

\* getViewportVisibility(element)
getViewportVisibility(element) ==
  LET rect == element.rect
      bottom == rect.top + rect.height
      right == rect.left + rect.width
  IN IF bottom < 0 \/ rect.top > innerHeight \/ right < 0 \/ rect.left > innerWidth
     THEN "none"
     ELSE IF rect.top >= 0 /\ rect.left >= 0 /\ bottom <= innerHeight /\ right <= innerWidth
     THEN "fully"
     ELSE "partially"

\* calculateViewportBonus(element), in tenths
calculateViewportBonus(element) ==
  CASE getViewportVisibility(element) = "fully" -> viewportBonusVisible
    [] getViewportVisibility(element) = "partially" -> viewportBonusPartial
    [] OTHER -> NoBonus

\* Mutant: the bands include their lower bound.
calculateQualityBonusInclusive(width) ==
  IF width >= HDWidth THEN qualityBonusHD
  ELSE IF width >= SDWidth THEN qualityBonusSD
  ELSE NoBonus

\* calculateQualityBonus(width), in tenths
calculateQualityBonus(width) ==
  IF width > HDWidth THEN qualityBonusHD
  ELSE IF width > SDWidth THEN qualityBonusSD
  ELSE NoBonus

\* size.area * viewportBonus * qualityBonus of the detectors, in hundredths
Score(element) ==
  LET size == calculateElementSize(element)
  IN size.area * calculateViewportBonus(element) * calculateQualityBonus(size.width)

\* The elements the score is computed for.
ScoreNaturals ==
  {Dim(0, 0), Dim(2000, 1000), Dim(1921, 1000), Dim(1920, 1000), Dim(1281, 1000),
   Dim(1280, 1000), Dim(640, 480)}
ScoreRects ==
  {Rect(left, 0, d.width, d.height) :
     left \in {0, 0 - 100, 5000}, d \in {Dim(1000, 500), Dim(1500, 1000), Dim(0, 0)}}
ScoreInputs ==
  {[tag |-> tag] @@ Look(natural, rect, "block", "hero") :
     tag \in {"img", "video", "div"}, natural \in ScoreNaturals, rect \in ScoreRects}

\* ------------------------------------------------------ media extraction
\* A run of 2028 characters: with "https://cdn.example/" in front a URL of
\* exactly MaxUrlLength characters.
LongName == "<2028 characters>"
LongUrl == "https://cdn.example/<2028 characters>"
TooLongUrl == "https://cdn.example/<2028 characters>x"

\* The URL of the i-th photo of a long carousel.
PhotoUrl(i) == "https://cdn.example/photo" \o ToString(i) \o ".jpg"

\* The pieces of the attribute values found in the documents ("" has none).
MediaUrlChars(u) ==
  CASE u = "https://cdn.example/v.mp4" -> <<"https:", "/", "/", "cdn.example", "/", "v", ".", "mp4">>
    [] u = "https://cdn.example/w.mp4" -> <<"https:", "/", "/", "cdn.example", "/", "w", ".", "mp4">>
    [] u = "/media/w.mp4" -> <<"/", "media", "/", "w", ".", "mp4">>
    [] u = "https://cdn.example/a.jpg" -> <<"https:", "/", "/", "cdn.example", "/", "a", ".", "jpg">>
    [] u = "https://cdn.example/p/media?size=l" ->
         <<"https:", "/", "/", "cdn.example", "/", "p", "/", "media", "?", "size=l">>
    [] u = "a.jpg" -> <<"a", ".", "jpg">>
    [] u = "b.jpg" -> <<"b", ".", "jpg">>
    [] u = "data:image/png;base64,AAAA" -> <<"data:", "image/png;base64,AAAA">>
    [] u = "https://cdn.example/bg.jpg" -> <<"https:", "/", "/", "cdn.example", "/", "bg", ".", "jpg">>
    [] u = "img/bg.jpg" -> <<"img", "/", "bg", ".", "jpg">>
    [] u = LongUrl -> <<"https:", "/", "/", "cdn.example", "/", LongName>>
    [] u = TooLongUrl -> <<"https:", "/", "/", "cdn.example", "/", LongName, "x">>
    [] u = "data:<4056 characters>" -> <<"data:", LongName, LongName>>
    [] u = "https://cdn.example/profile.jpg" ->
         <<"https:", "/", "/", "cdn.example", "/", "profile", ".", "jpg">>
    [] u \in {PhotoUrl(i) : i \in 1..(MaxCarousel + 1)} ->
         <<"https:", "/", "/", "cdn.example", "/",
           "photo" \o ToString(CHOOSE i \in 1..(MaxCarousel + 1) : u = PhotoUrl(i)), ".", "jpg">>
    [] OTHER -> <<>>

\* url.length
RECURSIVE Length(_)
Length(chars) ==
  IF chars = <<>>
  THEN 0
  ELSE (IF Head(chars) = LongName THEN 2028 ELSE Len(Head(chars))) + Length(Tail(chars))

\* extractImageUrl(img)
extractImageUrl(img, location) ==
  LET highestResUrl == IF img.srcset # <<>> THEN getHighestResolutionFromSrcset(img.srcset) ELSE JsNull
  IN IF ~highestResUrl.isNull
     THEN makeAbsoluteUrl(Str(MediaUrlChars(highestResUrl.str)), location)
     ELSE IF img.src # ""
     THEN makeAbsoluteUrl(Str(MediaUrlChars(img.src)), location)
     ELSE NullStr

\* extractVideoUrl(video): sources are the src of its <source> children
extractVideoUrl(video, location) ==
  IF video.src # ""
  THEN makeAbsoluteUrl(Str(MediaUrlChars(video.src)), location)
  ELSE IF video.sources # <<>> /\ video.sources[1] # ""
  THEN makeAbsoluteUrl(Str(MediaUrlChars(video.sources[1])), location)
  ELSE NullStr

\* extractBackgroundImageUrl(element): the computed background-image is
\* "none", a value without a url(...) token, or url("...") of the URL kept
\* in the field; the URL is returned as it is written.
extractBackgroundImageUrl(element) ==
  IF element.backgroundImage \in {"none", "linear-gradient(red, blue)"}
  THEN NullStr
  ELSE Str(MediaUrlChars(element.backgroundImage))

\* Mutant: the length of the URL is not looked at.
isValidMediaUrlAnyLength(url) ==
  /\ ~url.isNull
  /\ url.chars # <<>>
  /\ startsWith(url.chars, <<"http:", "/", "/">>) \/ startsWith(url.chars, <<"https:", "/", "/">>)
  /\ ~startsWith(url.chars, <<"data:">>)

\* isValidMediaUrl(url)
isValidMediaUrl(url) ==
  /\ ~url.isNull
  /\ url.chars # <<>>
  /\ startsWith(url.chars, <<"http:", "/", "/">>) \/ startsWith(url.chars, <<"https:", "/", "/">>)
  /\ ~startsWith(url.chars, <<"data:">>)
  /\ ~(Length(url.chars) > MaxUrlLength)

\* new URL(url, window.location.href).pathname of a URL string: what follows
\* the host, up to the query or the fragment
pathname(url, location) ==
  LET chars == makeAbsoluteUrl(url, location).chars
      ends == {k \in DOMAIN chars : k >= 5 /\ chars[k] \in {"?", "#"}}
      end == IF ends = {} THEN Len(chars) + 1 ELSE CHOOSE k \in ends : \A j \in ends : k <= j
  IN IF Len(chars) < 5 THEN <<"/">> ELSE SubSeq(chars, 5, end - 1)

\* guessExtensionFromUrl(url): the first of the known extensions the URL holds
guessExtensionFromUrl(url) ==
  LET includes(ext) == \E k \in 1..(Len(url.chars) - 1) : url.chars[k] = "." /\ url.chars[k + 1] = ext
      known == <<"png", "gif", "webp", "svg", "bmp", "mp4", "webm", "mov", "avi">>
      found == {k \in DOMAIN known : includes(known[k])}
  IN IF url.isNull \/ url.chars = <<>> \/ found = {}
     THEN "jpg"
     ELSE known[CHOOSE k \in found : \A j \in found : k <= j]

\* generateFilename(url): Date.now() and Math.random() give two pieces that
\* differ from call to call
generateFilename(url) ==
  <<"media_", "<timestamp>", "_", "<random>", ".", guessExtensionFromUrl(url)>>

\* extractFilenameFromUrl(url)
extractFilenameFromUrl(url, location) ==
  IF url.isNull \/ url.chars = <<>>
  THEN <<"media">>
  ELSE LET path == pathname(url, location)
           filename == SubSeq(path, lastIndexOf(path, "/") + 2, Len(path))
       IN IF filename # <<>> /\ \E k \in DOMAIN filename : filename[k] = "."
          THEN filename
          ELSE generateFilename(url)

\* createMediaObject(url, type, element, score); the timestamp is left out
createMediaObject(url, type, element, score, location) ==
  [url |-> makeAbsoluteUrl(url, location),
   filename |-> extractFilenameFromUrl(url, location),
   type |-> type,
   score |-> score,
   element |-> element.tag]

\* null where a media object is expected
NoMedia == [url |-> NullStr, filename |-> <<>>, type |-> "", score |-> 0, element |-> ""]

\* ---------------------------------------------------- the generic detector
excludeClassNames == {"ad", "advertisement", "sponsor", "banner", "icon", "avatar",
                      "thumbnail-small", "logo"}

\* classStr.includes(word) for the class attributes of the documents
ClassIncludes(classStr, word) ==
  <<classStr, word>> \in {<<"ad-banner", "ad">>, <<"ad-banner", "banner">>, <<"header", "ad">>}

\* shouldExcludeByClassName(element)
shouldExcludeByClassName(element) ==
  \E excludeClass \in excludeClassNames : ClassIncludes(element.className, excludeClass)

\* isTooSmall(size), isIcon(size)
isTooSmall(size) == size.width < minHeroSize \/ size.height < minHeroSize
isIcon(size) == size.width < iconThreshold \/ size.height < iconThreshold

\* isElementVisible(element)
isElementVisible(element) == element.display # "none"

\* filterElements(elements)
filterElements(elements) ==
  LET Keep(element) ==
        /\ isElementVisible(element)
        /\ ~isTooSmall(calculateElementSize(element))
        /\ ~isIcon(calculateElementSize(element))
        /\ ~shouldExcludeByClassName(element)
  IN SelectSeq(elements, Keep)

\* getAllImages(), getAllVideos(), getElementsWithBackgroundImages()
getAllImages(page) == LET Is(e) == e.tag = "img" IN SelectSeq(page.elements, Is)
getAllVideos(page) == LET Is(e) == e.tag = "video" IN SelectSeq(page.elements, Is)
getElementsWithBackgroundImages(page) ==
  LET Has(e) == e.backgroundImage # "none" IN SelectSeq(page.elements, Has)

\* Where the stable sort by descending score puts e among the entries
\* sorted before it.
InsertByScore(sorted, e) ==
  LET n == Cardinality({k \in DOMAIN sorted : sorted[k].score >= e.score})
  IN SubSeq(sorted, 1, n) \o <<e>> \o SubSeq(sorted, n + 1, Len(sorted))

\* scored.sort((a, b) => b.score - a.score)
RECURSIVE SortByScore(_)
SortByScore(scored) ==
  IF scored = <<>>
  THEN <<>>
  ELSE InsertByScore(SortByScore(SubSeq(scored, 1, Len(scored) - 1)), scored[Len(scored)])

\* The winner of a stage: the filtered elements are scored and sorted, the
\* first one is taken.
Winner(validElements) ==
  SortByScore([k \in DOMAIN validElements |->
                 [element |-> validElements[k], score |-> Score(validElements[k])]])[1]

\* detectHeroVideo()
detectHeroVideo(page) ==
  LET validVideos == filterElements(getAllVideos(page))
  IN IF validVideos = <<>>
     THEN NoMedia
     ELSE LET winner == Winner(validVideos)
              videoUrl == extractVideoUrl(winner.element, page.location)
          IN IF ~isValidMediaUrl(videoUrl)
             THEN NoMedia
             ELSE createMediaObject(videoUrl, "video", winner.element, winner.score, page.location)

\* detectHeroImage()
detectHeroImage(page) ==
  LET validImages == filterElements(getAllImages(page))
  IN IF validImages = <<>>
     THEN NoMedia
     ELSE LET winner == Winner(validImages)
              imageUrl == extractImageUrl(winner.element, page.location)
          IN IF ~isValidMediaUrl(imageUrl)
             THEN NoMedia
             ELSE createMediaObject(imageUrl, "image", winner.element, winner.score, page.location)

\* detectHeroBackgroundImage()
detectHeroBackgroundImage(page) ==
  LET validElements == filterElements(getElementsWithBackgroundImages(page))
  IN IF validElements = <<>>
     THEN NoMedia
     ELSE LET winner == Winner(validElements)
              bgImageUrl == extractBackgroundImageUrl(winner.element)
          IN IF ~isValidMediaUrl(bgImageUrl)
             THEN NoMedia
             ELSE createMediaObject(bgImageUrl, "image", winner.element, winner.score, page.location)

\* Mutant: the stages are compared by score instead of tried in order.
detectGenericByScore(page) ==
  LET found == SelectSeq(<<detectHeroVideo(page), detectHeroImage(page),
                           detectHeroBackgroundImage(page)>>, LAMBDA m : m # NoMedia)
  IN IF found = <<>>
     THEN <<>>
     ELSE <<SortByScore(found)[1]>>

\* detectHeroMedia() of the generic detector (CONFIG.generic.prioritizeVideos is true)
detectGeneric(page) ==
  IF detectHeroVideo(page) # NoMedia
  THEN <<detectHeroVideo(page)>>
  ELSE IF detectHeroImage(page) # NoMedia
  THEN <<detectHeroImage(page)>>
  ELSE IF detectHeroBackgroundImage(page) # NoMedia
  THEN <<detectHeroBackgroundImage(page)>>
  ELSE <<>>

\* -------------------------------------------------- the Instagram detector
\* window.location.hostname
hostname(location) ==
  IF Len(location.href) >= 4 /\ location.href[2] = "/" /\ location.href[3] = "/"
     /\ location.href[4] # "/"
  THEN location.href[4]
  ELSE ""

\* shouldUseInstagramDetector(): hostname.includes('instagram.com')
shouldUseInstagramDetector(page) ==
  hostname(page.location) \in {"www.instagram.com", "instagram.com"}

\* url.includes('/' + marker + '/')
HrefIncludes(href, marker) ==
  \E k \in 1..(Len(href) - 2) : href[k] = "/" /\ href[k + 1] = marker /\ href[k + 2] = "/"

\* The in-article elements of the document, in document order: what
\* article.querySelectorAll(selector) walks through.
InArticle(page, Matches(_)) ==
  LET Sel(e) == e.inArticle /\ Matches(e) IN SelectSeq(page.elements, Sel)

\* detectPostType(); page.indicators is hasCarouselIndicators()
detectPostType(page) ==
  LET IsVideo(e) == e.tag = "video"
      IsSrcsetImage(e) == e.tag = "img" /\ e.srcset # <<>>
  IN IF HrefIncludes(page.location.href, "reel") \/ HrefIncludes(page.location.href, "reels")
     THEN "reel"
     ELSE IF page.indicators THEN "carousel"
     ELSE IF InArticle(page, IsVideo) # <<>> THEN "video"
     ELSE IF InArticle(page, IsSrcsetImage) # <<>> THEN "image"
     ELSE "unknown"

\* text.toLowerCase().includes(word) for the alt texts, class attributes and
\* roles of the documents
TextIncludes(text, word) ==
  <<text, word>> \in {<<"User's profile picture", "profile picture">>,
                      <<"User's profile picture", "'s profile picture">>,
                      <<"Verified badge", "badge">>,
                      <<"Verified badge", "verified">>,
                      <<"profile-header", "profile">>}

\* An ancestor of an image: its class, its role and its computed border-radius.
Ancestor(className, role, borderRadius) ==
  [className |-> className, role |-> role, borderRadius |-> borderRadius]

\* isProfilePicture(img): alt text, then the first ancestors (the parent
\* first), then the size of the box
isProfilePicture(img) ==
  \/ TextIncludes(img.alt, "profile picture") \/ TextIncludes(img.alt, "'s profile picture")
  \/ \E depth \in 1..ProfileWalkDepth :
       /\ depth <= Len(img.ancestors)
       /\ \/ TextIncludes(img.ancestors[depth].className, "profile")
          \/ TextIncludes(img.ancestors[depth].role, "profile")
          \/ img.ancestors[depth].borderRadius = "50%"
  \/ /\ img.rect.width < ProfileBoxLimit
     /\ img.rect.height < ProfileBoxLimit
     /\ img.rect.width - img.rect.height < ProfileSquareLimit
     /\ img.rect.height - img.rect.width < ProfileSquareLimit

\* isUIElement(img)
isUIElement(img) ==
  \/ \E keyword \in {"icon", "logo", "emoji", "sticker", "badge", "verified"} :
       TextIncludes(img.alt, keyword) \/ TextIncludes(img.className, keyword)
  \/ img.rect.width < UIBoxLimit
  \/ img.rect.height < UIBoxLimit

\* addPositionToFilename(filename, position, total)
addPositionToFilename(filename, position, total) ==
  IF total = 1
  THEN filename
  ELSE LET lastDotIndex == lastIndexOf(filename, ".")
       IN IF lastDotIndex = 0 - 1
          THEN filename \o <<"_", ToString(position)>>
          ELSE SubSeq(filename, 1, lastDotIndex) \o <<"_", ToString(position)>>
                 \o SubSeq(filename, lastDotIndex + 1, Len(filename))

\* The loops of detectCarousel over images and over videos: an element whose
\* URL is valid and not in the set yet is added to the list, its URL to the
\* set.
RECURSIVE CollectUnique(_, _)
CollectUnique(elements, location) ==
  IF elements = <<>>
  THEN <<>>
  ELSE LET before == CollectUnique(SubSeq(elements, 1, Len(elements) - 1), location)
           element == elements[Len(elements)]
           url == IF element.tag = "img"
                  THEN extractImageUrl(element, location)
                  ELSE extractVideoUrl(element, location)
       IN IF isValidMediaUrl(url) /\ ~\E k \in DOMAIN before : before[k].url = url
          THEN Append(before, createMediaObject(url, IF element.tag = "img" THEN "image" ELSE "video",
                                                element, 0, location))
          ELSE before

\* A media object of a carousel: with position and totalItems.
CarouselItem(media, position, total) ==
  [url |-> media.url,
   filename |-> addPositionToFilename(media.filename, position, total),
   type |-> media.type,
   score |-> media.score,
   element |-> media.element,
   position |-> position,
   totalItems |-> total]

\* A media object of the other post types and of the generic detector has
\* no position and no totalItems (0 stands for the absent fields).
SingleItem(media) ==
  [url |-> media.url, filename |-> media.filename, type |-> media.type, score |-> media.score,
   element |-> media.element, position |-> 0, totalItems |-> 0]

\* Mutant: the list is not cut at maxCarouselItems and the items are
\* numbered from 0.
detectCarouselUncut(page) ==
  LET IsContentImage(e) ==
        e.tag = "img" /\ e.srcset # <<>> /\ ~isProfilePicture(e) /\ ~isUIElement(e)
      IsVideo(e) == e.tag = "video"
      mediaList ==
        CollectUnique(InArticle(page, IsContentImage), page.location)
          \o CollectUnique(InArticle(page, IsVideo), page.location)
  IN IF ~page.article
     THEN <<>>
     ELSE [k \in DOMAIN mediaList |-> CarouselItem(mediaList[k], k - 1, Len(mediaList))]

\* detectCarousel()
detectCarousel(page) ==
  LET IsContentImage(e) ==
        e.tag = "img" /\ e.srcset # <<>> /\ ~isProfilePicture(e) /\ ~isUIElement(e)
      IsVideo(e) == e.tag = "video"
      mediaList ==
        CollectUnique(InArticle(page, IsContentImage), page.location)
          \o CollectUnique(InArticle(page, IsVideo), page.location)
      limited == SubSeq(mediaList, 1, IF Len(mediaList) < maxCarouselItems
                                      THEN Len(mediaList) ELSE maxCarouselItems)
  IN IF ~page.article
     THEN <<>>
     ELSE [k \in DOMAIN limited |-> CarouselItem(limited[k], k, Len(limited))]

\* detectVideo()
detectVideo(page) ==
  LET IsVideo(e) == e.tag = "video"
      videos == InArticle(page, IsVideo)
  IN IF ~page.article \/ videos = <<>>
     THEN <<>>
     ELSE LET url == extractVideoUrl(videos[1], page.location)
          IN IF ~isValidMediaUrl(url)
             THEN <<>>
             ELSE <<SingleItem(createMediaObject(url, "video", videos[1], 0, page.location))>>

\* detectReel(): document.querySelector('video[playsinline]')
detectReel(page) ==
  LET Playsinline(e) == e.tag = "video" /\ e.playsinline
      videos == SelectSeq(page.elements, Playsinline)
  IN IF videos = <<>>
     THEN <<>>
     ELSE LET url == extractVideoUrl(videos[1], page.location)
          IN IF ~isValidMediaUrl(url)
             THEN <<>>
             ELSE <<SingleItem(createMediaObject(url, "video", videos[1], 0, page.location))>>

\* detectImage(): the first image that passes the filters and has a valid URL
detectImage(page) ==
  LET Candidate(e) ==
        /\ e.tag = "img" /\ e.srcset # <<>>
        /\ ~isProfilePicture(e) /\ ~isUIElement(e)
        /\ isValidMediaUrl(extractImageUrl(e, page.location))
      images == InArticle(page, Candidate)
  IN IF ~page.article \/ images = <<>>
     THEN <<>>
     ELSE <<SingleItem(createMediaObject(extractImageUrl(images[1], page.location), "image",
                                         images[1], 0, page.location))>>

\* detectHeroMedia() of the Instagram detector
detectInstagram(page) ==
  CASE detectPostType(page) = "carousel" -> detectCarousel(page)
    [] detectPostType(page) = "video" -> detectVideo(page)
    [] detectPostType(page) = "reel" -> detectReel(page)
    [] detectPostType(page) = "image" -> detectImage(page)
    [] OTHER -> <<>>

\* detectHeroMedia() of the registry: getDetector()()
detectHeroMedia(page) ==
  IF shouldUseInstagramDetector(page)
  THEN detectInstagram(page)
  ELSE [k \in DOMAIN detectGeneric(page) |-> SingleItem(detectGeneric(page)[k])]

\* A function and its argument are drawn.
PureInit ==
  /\ QueueInit
  /\ BatchInit
  /\ ContentIdle
  /\ \/ fn = "validateDelay" /\ arg \in DelayInputs
     \/ fn = "getHighestResolutionFromSrcset" /\ arg \in SrcsetInputs
     \/ fn = "makeAbsoluteUrl" /\ arg \in [url : UrlInputs, location : Locations]
     \/ fn = "score" /\ arg \in ScoreInputs
  /\ vals = <<>>

\* validateDelay is applied to the argument, then to its own result.
ApplyValidateDelay ==
  /\ fn = "validateDelay"
  /\ Len(vals) < 2
  /\ vals' = Append(vals, validateDelay(IF vals = <<>> THEN arg ELSE vals[1]))
  /\ UNCHANGED <<fn, arg>>
  /\ UNCHANGED notPure

\* getHighestResolutionFromSrcset is applied to the argument.
ApplySrcset ==
  /\ fn = "getHighestResolutionFromSrcset"
  /\ vals = <<>>
  /\ vals' = <<getHighestResolutionFromSrcset(arg)>>
  /\ UNCHANGED <<fn, arg>>
  /\ UNCHANGED notPure

\* makeAbsoluteUrl is applied to the argument, then to its own result.
ApplyMakeAbsoluteUrl ==
  /\ fn = "makeAbsoluteUrl"
  /\ Len(vals) < 2
  /\ vals' = Append(vals, makeAbsoluteUrl(IF vals = <<>> THEN arg.url ELSE vals[1], arg.location))
  /\ UNCHANGED <<fn, arg>>
  /\ UNCHANGED notPure

\* The score of the detectors is computed for the element.
ApplyScore ==
  /\ fn = "score"
  /\ vals = <<>>
  /\ vals' = <<Score(arg)>>
  /\ UNCHANGED <<fn, arg>>
  /\ UNCHANGED notPure

NextPure ==
  \/ ApplyScore
  \/ ApplyValidateDelay
  \/ ApplySrcset
  \/ ApplyMakeAbsoluteUrl

SpecPure == PureInit /\ [][NextPure]_allVars

\* ------------------------------------------------------------ documents
\* The attributes a URL is extracted from, and where an element stands.
Media(src, srcset, sources, backgroundImage) ==
  [src |-> src, srcset |-> srcset, sources |-> sources, backgroundImage |-> backgroundImage]
Context(inArticle, alt, ancestors, playsinline) ==
  [inArticle |-> inArticle, alt |-> alt, ancestors |-> ancestors, playsinline |-> playsinline]
Element(tag, look, media, context) == [tag |-> tag] @@ look @@ media @@ context

\* A document: its location, whether it has an <article>, whether it has
\* carousel controls, and its media elements in document order.
Page(location, article, indicators, elements) ==
  [location |-> location, article |-> article, indicators |-> indicators, elements |-> elements]

\* A large element fully in the viewport, a large element partly out of it,
\* a small one, a hidden one, one with an excluded class.
HeroLook == Look(Dim(2000, 1000), Rect(0, 0, 1000, 500), "block", "hero")
AsideLook == Look(Dim(0, 0), Rect(0 - 100, 0, 1500, 1000), "block", "hero")
SmallLook == Look(Dim(0, 0), Rect(0, 0, 150, 150), "block", "hero")
HiddenLook == Look(Dim(2000, 1000), Rect(0, 0, 1000, 500), "none", "hero")
AdLook == Look(Dim(2000, 1000), Rect(0, 0, 1000, 500), "block", "ad-banner")

Elsewhere == Context(FALSE, "", <<>>, FALSE)

GenericVideos ==
  {Element("video", HeroLook, Media(src, <<>>, <<>>, "none"), Elsewhere) :
     src \in {"https://cdn.example/v.mp4", "/media/w.mp4", "", LongUrl, TooLongUrl}}
    \cup {Element("video", HeroLook, Media("", <<>>, <<"https://cdn.example/w.mp4">>, "none"), Elsewhere)}
    \cup {Element("video", look, Media("https://cdn.example/v.mp4", <<>>, <<>>, "none"), Elsewhere) :
            look \in {AsideLook, SmallLook, HiddenLook, AdLook}}

GenericImages ==
  {Element("img", HeroLook, Media(src, <<>>, <<>>, "none"), Elsewhere) :
     src \in {"https://cdn.example/a.jpg", "data:image/png;base64,AAAA", "data:<4056 characters>", ""}}
    \cup {Element("img", HeroLook,
                  Media("https://cdn.example/a.jpg",
                        <<SrcsetEntry("a.jpg", <<"1", "w">>), SrcsetEntry("b.jpg", <<"2", "w">>)>>,
                        <<>>, "none"), Elsewhere)}
    \cup {Element("img", look, Media("https://cdn.example/a.jpg", <<>>, <<>>, "none"), Elsewhere) :
            look \in {AsideLook, HiddenLook}}

GenericBackgrounds ==
  {Element("div", HeroLook, Media("", <<>>, <<>>, bg), Elsewhere) :
     bg \in {"https://cdn.example/bg.jpg", "img/bg.jpg", "linear-gradient(red, blue)"}}
    \cup {Element("div", AsideLook, Media("", <<>>, <<>>, "https://cdn.example/bg.jpg"), Elsewhere)}

GenericPages ==
  {Page(location, FALSE, FALSE, elements) :
     location \in {HttpsPage, FilePage},
     elements \in SeqsUpTo(GenericVideos \cup GenericImages \cup GenericBackgrounds, MaxElements)}

InstagramPost ==
  Location(<<"https:", "/", "/", "www.instagram.com", "/", "p", "/", "ABC123", "/">>,
           <<"https:">>, <<"https:", "/", "/", "www.instagram.com">>)
InstagramReel ==
  Location(<<"https:", "/", "/", "www.instagram.com", "/", "reel", "/", "XYZ789", "/">>,
           <<"https:">>, <<"https:", "/", "/", "www.instagram.com">>)

Plain == Ancestor("", "", "")
Circle == Ancestor("", "", "50%")
ProfileHeader == Ancestor("profile-header", "", "")

\* The box of a post's photo, of an avatar, and of an image that has no
\* layout box.
PhotoLook(rect) == Look(Dim(1080, 1080), rect, "block", "")
AvatarLook == Look(Dim(150, 150), Rect(0, 0, 40, 40), "block", "")
PhotoBox == Rect(0, 0, 600, 600)
NoBox == Rect(0, 0, 0, 0)

\* <img srcset="url 1080w" src="url">
Photo(url, look, alt, ancestors) ==
  Element("img", look, Media(url, <<SrcsetEntry(url, <<"1", "0", "8", "0", "w">>)>>, <<>>, "none"),
          Context(TRUE, alt, ancestors, FALSE))

InstagramImages ==
  {Photo("https://cdn.example/a.jpg", PhotoLook(PhotoBox), "Photo by user", <<Plain>>),
   Photo("https://cdn.example/p/media?size=l", PhotoLook(PhotoBox), "Photo by user", <<Plain>>),
   Photo("https://cdn.example/v.mp4", PhotoLook(PhotoBox), "Photo by user", <<Plain>>),
   Photo("https://cdn.example/a.jpg", PhotoLook(NoBox), "Photo by user", <<Plain>>),
   Photo("https://cdn.example/profile.jpg", AvatarLook, "User's profile picture", <<Plain>>),
   Photo("https://cdn.example/profile.jpg", AvatarLook, "", <<Plain, Circle>>),
   Photo("https://cdn.example/profile.jpg", AvatarLook, "", <<ProfileHeader>>),
   Photo("https://cdn.example/profile.jpg", AvatarLook, "", <<Plain>>),
   Photo("https://cdn.example/profile.jpg", PhotoLook(PhotoBox), "Verified badge", <<Plain>>),
   Element("img", PhotoLook(PhotoBox), Media("https://cdn.example/a.jpg", <<>>, <<>>, "none"),
           Context(TRUE, "Photo by user", <<Plain>>, FALSE))}

\* <video src=...>, in the article or outside it, with playsinline or without
Clip(src, inArticle, playsinline) ==
  Element("video", Look(Dim(1080, 1920), PhotoBox, "block", ""), Media(src, <<>>, <<>>, "none"),
          Context(inArticle, "", <<Plain>>, playsinline))

InstagramVideos ==
  {Clip("https://cdn.example/v.mp4", TRUE, FALSE),
   Clip("https://cdn.example/w.mp4", TRUE, TRUE),
   Clip("https://cdn.example/v.mp4", FALSE, TRUE),
   Clip("", TRUE, FALSE),
   Clip("https://cdn.example/w.mp4", FALSE, FALSE),
   Clip(TooLongUrl, TRUE, TRUE)}

InstagramPages ==
  {page \in {Page(location, article, indicators, elements) :
               location \in {InstagramPost, InstagramReel},
               article \in BOOLEAN,
               indicators \in BOOLEAN,
               elements \in SeqsUpTo(InstagramImages \cup InstagramVideos, MaxElements)} :
     \A k \in DOMAIN page.elements : page.elements[k].inArticle => page.article}

\* Posts of up to MaxCarousel distinct photos.
LongCarousels ==
  {Page(InstagramPost, TRUE, indicators,
        [i \in 1..n |-> Photo(PhotoUrl(i), PhotoLook(PhotoBox), "Photo by user", <<Plain>>)]) :
     n \in (maxCarouselItems - 1)..MaxCarousel, indicators \in BOOLEAN}

Pages == GenericPages \cup InstagramPages \cup LongCarousels

\* A document is loaded and the content script is asked to analyse it.
DetectInit ==
  /\ QueueInit
  /\ BatchInit
  /\ ContentIdle
  /\ fn = "detectHeroMedia"
  /\ arg \in Pages
  /\ vals = <<>>

\* handleAnalyzePage: the detector the registry picks is run on the document.
AnalyzePage ==
  /\ fn = "detectHeroMedia"
  /\ vals = <<>>
  /\ vals' = <<detectHeroMedia(arg)>>
  /\ UNCHANGED <<fn, arg>>
  /\ UNCHANGED notPure

NextDetect == AnalyzePage

SpecDetect == DetectInit /\ [][NextDetect]_allVars

\* ------------------------------------------------------ the content script
\* Error messages, word by word.
ErrPageLoadTimeout == <<"Page", " ", "load", " ", "timeout">>
ErrNoHeroMedia == <<"No", " ", "hero", " ", "media", " ", "found">>
\* What runtime.sendMessage rejects with when the message cannot be delivered.
SendErrors == {<<"Could", " ", "not", " ", "establish", " ", "connection">>}

\* String.prototype.toLowerCase on the words of the messages
toLowerCase(text) ==
  [k \in DOMAIN text |->
     CASE text[k] = "Page" -> "page"
       [] text[k] = "No" -> "no"
       [] text[k] = "Could" -> "could"
       [] OTHER -> text[k]]

\* String.prototype.includes, on whole words
includes(text, words) ==
  \E k \in 0..(Len(text) - Len(words)) : SubSeq(text, k + 1, k + Len(words)) = words

\* classifyError(error), on error.message
classifyError(message) ==
  LET m == toLowerCase(message)
  IN IF includes(m, <<"timeout">>) THEN "TIMEOUT"
     ELSE IF includes(m, <<"login">>) \/ includes(m, <<"unauthorized">>) THEN "LOGIN_REQUIRED"
     ELSE IF includes(m, <<"network">>) \/ includes(m, <<"fetch">>) THEN "NETWORK_ERROR"
     ELSE IF includes(m, <<"no", " ", "hero", " ", "media">>) \/ includes(m, <<"not", " ", "found">>)
     THEN "NO_MEDIA_FOUND"
     ELSE "UNKNOWN"

\* The reports of the content script (media |-> <<>> and error |-> <<>> stand
\* for absent fields).
MediaDetected(url, media) ==
  [type |-> "MEDIA_DETECTED", url |-> url, media |-> media, error |-> <<>>, errorType |-> ""]
AnalysisFailedReport(url, message) ==
  [type |-> "ANALYSIS_FAILED", url |-> url, media |-> <<>>, error |-> message,
   errorType |-> classifyError(message)]

\* The catch block of handleAnalyzePage up to its await: ANALYSIS_FAILED is
\* handed to runtime.sendMessage.
Fail(message) ==
  /\ sent' = Append(sent, AnalysisFailedReport(document.page.location.href, message))
  /\ contentPc' = "failing"

\* The documents a content script is asked about.
ContentPages ==
  {Page(location, FALSE, FALSE, elements) :
     location \in {HttpsPage, FilePage},
     elements \in SeqsUpTo(GenericVideos \cup GenericImages \cup GenericBackgrounds, 1)}
    \cup {Page(location, TRUE, indicators, elements) :
            location \in {InstagramPost, InstagramReel},
            indicators \in BOOLEAN,
            elements \in SeqsUpTo(InstagramImages \cup InstagramVideos, 1)}

\* A tab has its document (loaded or still loading) and its content script
\* listens.
ContentInit ==
  /\ QueueInit
  /\ BatchInit
  /\ PureIdle
  /\ document \in [page : ContentPages, readyState : {"loading", "complete"}]
  /\ contentPc = "listening"
  /\ mediaResults = <<>>
  /\ sent = <<>>

\* ANALYZE_PAGE arrives: handleAnalyzePage up to its first await that
\* suspends it. For a document that is complete waitForPageReady returns at
\* once and the detection is started; otherwise waitForPageReady waits for the
\* load event with its timer.
handleAnalyzePage ==
  /\ contentPc = "listening"
  /\ contentPc' = IF document.readyState = "complete" THEN "detecting" ELSE "loading"
  /\ UNCHANGED <<document, mediaResults, sent>>
  /\ UNCHANGED notContent

\* The load event fires: waitForPageReady resolves and the detection is
\* started.
PageLoads ==
  /\ contentPc = "loading"
  /\ document' = [document EXCEPT !.readyState = "complete"]
  /\ contentPc' = "detecting"
  /\ UNCHANGED <<mediaResults, sent>>
  /\ UNCHANGED notContent

\* `await detectHeroMedia()` resolves: an empty result is thrown to the catch
\* block, any other is handed to runtime.sendMessage as MEDIA_DETECTED.
DetectionEnds ==
  /\ contentPc = "detecting"
  /\ mediaResults' = detectHeroMedia(document.page)
  /\ IF Len(mediaResults') = 0
     THEN Fail(ErrNoHeroMedia)
     ELSE /\ sent' = Append(sent, MediaDetected(document.page.location.href, mediaResults'))
          /\ contentPc' = "reporting"
  /\ UNCHANGED document
  /\ UNCHANGED notContent

\* The timer of waitForPageReady fires first: it rejects with 'Page load
\* timeout', which the catch block reports.
PageLoadTimeout ==
  /\ contentPc = "loading"
  /\ Fail(ErrPageLoadTimeout)
  /\ UNCHANGED <<document, mediaResults>>
  /\ UNCHANGED notContent

\* runtime.sendMessage settles. A resolved send ends handleAnalyzePage with
\* its answer; a rejected send of MEDIA_DETECTED is caught by the catch block,
\* a rejected send of ANALYSIS_FAILED rejects handleAnalyzePage, which
\* handleMessage answers with an error.
SendSettles(resolved, message) ==
  /\ contentPc \in {"reporting", "failing"}
  /\ IF contentPc = "reporting" /\ ~resolved
     THEN Fail(message)
     ELSE /\ contentPc' = "answered"
          /\ sent' = sent
  /\ UNCHANGED <<document, mediaResults>>
  /\ UNCHANGED notContent

NextContent ==
  \/ handleAnalyzePage
  \/ PageLoads
  \/ PageLoadTimeout
  \/ DetectionEnds
  \/ \E resolved \in BOOLEAN, message \in SendErrors : SendSettles(resolved, message)

SpecContent == ContentInit /\ [][NextContent]_allVars

\* ================================================================ claims
\* Every results list a caller can see: the live one and the returned ones.
ResultLists == {results} \cup {ret[p].value : p \in Calls}

\* The invocations whose drain loop is running (suspended on an await).
Active == {p \in Calls : pc[p] \in {"starting", "started", "waiting", "sleeping"}}

\* C1: an item is reported failed only after the transport's download request
\* was invoked exactly 1 + retryAttempts times for it, and no item ever gets
\* more requests than that.
C1_RetryBound ==
  /\ \A rs \in ResultLists : \A k \in DOMAIN rs :
       rs[k].status = "failed" => downloadCalls[rs[k].media] = 1 + retryAttempts
  /\ \A i \in DOMAIN items : downloadCalls[i] <= 1 + retryAttempts
  /\ 1 + retryAttempts = 4

\* C1 witness: an item has been reported failed after its requests.
C1_Witness ==
  \E k \in DOMAIN results :
    results[k].status = "failed" /\ downloadCalls[results[k].media] = 4

\* C8: every item's retryCount lies in 0..retryAttempts, is 0 for an item no
\* attempt was started for, and otherwise is the zero-based index of the
\* latest attempt started for it (the number of requests made for it, less one).
C8_RetryCount ==
  \A i \in DOMAIN items :
    /\ items[i].retryCount \in 0..retryAttempts
    /\ retryAttempts = 3
    /\ downloadCalls[i] = 0 => items[i].retryCount = 0 /\ items[i].status = "pending"
    /\ downloadCalls[i] > 0 => items[i].retryCount = downloadCalls[i] - 1

\* C8 witness: an item is in its last attempt, the one with index retryAttempts.
C8_Witness ==
  \E p \in Active : attempt[p] = retryAttempts /\ items[curItem[p]].retryCount = 3

\* The messages an exhausted item's result can carry.
FailureMessages ==
  {ErrTimeout} \cup ErrorCodes \cup {ErrStartPrefix \o r : r \in RequestErrors}

\* Items are numbered in the order add() received them.
Consecutive(seq) == \A k \in 1..(Len(seq) - 1) : seq[k + 1] = seq[k] + 1

\* C2: process() takes the pending items first in, first out, and every
\* results list holds the results in the order the items were added: the
\* pending list and the items each invocation has taken are consecutive runs
\* of the add order, taken items precede pending ones, and the k-th result
\* is the result of the k-th item taken.
C2_Order ==
  /\ Consecutive(queue)
  /\ \A p \in Calls :
       /\ Consecutive(dequeued[p])
       /\ \A j \in DOMAIN dequeued[p], k \in DOMAIN queue : dequeued[p][j] < queue[k]
       /\ pc[p] = "done" =>
            /\ Len(ret[p].value) = Len(dequeued[p])
            /\ \A k \in DOMAIN ret[p].value :
                 ret[p].value[k].media = items[dequeued[p][k]].media
       /\ p \in Active =>
            /\ Len(results) = Len(dequeued[p]) - 1
            /\ \A k \in DOMAIN results : results[k].media = items[dequeued[p][k]].media
  /\ \A rs \in ResultLists : \A j, k \in DOMAIN rs : j < k => rs[j].media < rs[k].media

\* C2 witness: three items, the second exhausted its retries, returned as
\* [item1 completed, item2 failed, item3 completed].
C2_Witness ==
  \E p \in Calls :
    /\ pc[p] = "done"
    /\ Len(ret[p].value) = 3
    /\ ret[p].value[1] = CompletedResult(1, 1)
    /\ ret[p].value[2].media = 2 /\ ret[p].value[2].status = "failed"
    /\ ret[p].value[3] = CompletedResult(3, 2)

\* C3 (states): a process() call is rejected only by the re-entrancy guard,
\* before it has taken any item; a call that resolved returns exactly one
\* result per item it took, a failed result exactly for the items that
\* exhausted their 1 + retryAttempts attempts, carrying the last error.
C3_Results ==
  \A p \in Calls :
    /\ pc[p] = "rejected" => ret[p].error = ErrAlreadyProcessing /\ dequeued[p] = <<>>
    /\ pc[p] = "done" =>
         /\ ret[p].error = ""
         /\ Len(ret[p].value) = Len(dequeued[p])
         /\ \A k \in DOMAIN ret[p].value :
              LET r == ret[p].value[k]
                  i == dequeued[p][k]
              IN /\ r.media = items[i].media
                 /\ r.status \in {"completed", "failed"}
                 /\ r.status = "failed" <=> items[i].status # "completed"
                 /\ r.status = "failed" =>
                      r.error \in FailureMessages /\ downloadCalls[i] = 1 + retryAttempts

\* C3 (steps): a call resolves only when no item is pending, so the items
\* behind an exhausted one are still taken.
C3_Continues ==
  \A p \in Calls : pc[p] # "done" /\ pc'[p] = "done" => queue = <<>> /\ queue' = <<>>

\* C3: one item's failure never aborts the batch.
C3_NoAbort == []C3_Results /\ [][C3_Continues]_vars

\* C3 witness: a call has resolved with a failed result followed by a
\* completed one.
C3_Witness ==
  \E p \in Calls :
    /\ pc[p] = "done"
    /\ \E k \in DOMAIN ret[p].value :
         /\ ret[p].value[k].status = "failed"
         /\ ret[p].value[k].error \in FailureMessages
         /\ k + 1 \in DOMAIN ret[p].value
         /\ ret[p].value[k + 1].status = "completed"

\* C4 (steps): a process() call made while isProcessing is true is rejected
\* with 'Queue is already being processed' and changes nothing of the queue;
\* a rejected call stays rejected and never takes an item.
C4_Step ==
  /\ (invoked' = invoked + 1 /\ isProcessing) =>
       /\ pc'[invoked'] = "rejected"
       /\ ret'[invoked'] = [value |-> <<>>, error |-> "Queue is already being processed"]
       /\ UNCHANGED <<queue, results, currentDownload, isProcessing, items>>
  /\ \A p \in Calls : pc[p] = "rejected" => pc'[p] = "rejected" /\ dequeued'[p] = <<>>

\* C4: the re-entrancy guard rejects, it neither ignores nor queues.
C4_Reentrancy == [][C4_Step]_vars

\* C4 witness: a call was rejected while another one is processing and
\* items are pending.
C4_Witness ==
  \E p \in Calls :
    /\ pc[p] = "rejected"
    /\ ret[p].error = ErrAlreadyProcessing
    /\ isProcessing
    /\ currentDownload # NULL
    /\ queue # <<>>

\* C5 (as claimed): at most one process() drain loop is active on the
\* instance, whatever callers do, clear() included.
C5_OneDrain == Cardinality(Active) <= 1

\* C6 (as claimed): at most one item has status 'downloading', the item an
\* active invocation works on has it, and an item process() has finished
\* with no longer has it.
C6_OneDownloading ==
  /\ Cardinality({i \in DOMAIN items : items[i].status = "downloading"}) <= 1
  /\ \A p \in Active : items[curItem[p]].status = "downloading"

\* C7 (as claimed): a transfer request is issued only when no transfer
\* requested earlier is still outstanding at the transport (a step reports
\* an event before it issues the next request, and the request is accepted
\* in a later step, so the transfers outstanding at the request are those
\* of the step's end).
C7_OneOutstanding ==
  [][(\E i \in DOMAIN downloadCalls : downloadCalls'[i] > downloadCalls[i])
       => outstanding' = {}]_vars

\* C9 (as claimed): once an item's result is recorded, the item's status is
\* the result's: Completed for a completed result, Failed for an exhausted one.
C9_TerminalStatus ==
  \A rs \in ResultLists : \A k \in DOMAIN rs :
    \A i \in DOMAIN items :
      items[i].media = rs[k].media => items[i].status = rs[k].status

\* The retry handling of a rejected attempt of invocation p: a backoff of
\* retryDelays[attempt] and nothing else before the last attempt, a failed
\* result carrying the error after it.
C10_RetryHandling(p, err) ==
  IF attempt[p] < 3
  THEN /\ pc'[p] = "sleeping"
       /\ {tt \in timers' : tt.call = p} =
            {[kind |-> "sleep", call |-> p, id |-> NULL,
              ms |-> <<2000, 4000, 8000>>[attempt[p] + 1]]}
       /\ UNCHANGED <<results, items, downloadCalls, attempt, curItem>>
  ELSE /\ results' = Append(results, FailedResult(items[curItem[p]].media, err))
       /\ downloadCalls'[curItem[p]] = 4
       /\ {tt \in timers' : tt.call = p} = {}

\* C10 (states): an attempt that waits has its 60 s timer armed and its
\* listener subscribed.
C10_Armed ==
  \A p \in Calls : pc[p] = "waiting" =>
    /\ [kind |-> "timeout", call |-> p, id |-> downloadId[p], ms |-> 60000] \in timers
    /\ downloadId[p] \in listeners

\* C10 (steps): a complete event for the awaited id makes the attempt
\* succeed; an error event for it and the 60 s timeout both reject it, with
\* the reported error and with 'Download timeout', and go through the same
\* retry handling; nothing else ends the attempt.
C10_Step ==
  \A p \in Calls : pc[p] = "waiting" =>
    LET id == downloadId[p]
        i == curItem[p]
        reported == transfers[id].state = "in_progress" /\ transfers'[id].state # "in_progress"
        timedOut == /\ transfers'[id] = transfers[id]
                    /\ \E tt \in timers \ timers' : tt.kind = "timeout" /\ tt.id = id
    IN /\ (reported /\ transfers'[id].state = "complete") =>
            /\ items'[i].status = "completed"
            /\ results' = Append(results, CompletedResult(items[i].media, id))
            /\ downloadCalls'[i] = downloadCalls[i]
       /\ (reported /\ transfers'[id].state = "interrupted") =>
            C10_RetryHandling(p, transfers'[id].error)
       /\ timedOut => C10_RetryHandling(p, "Download timeout")
       /\ (pc'[p] # "waiting" \/ downloadId'[p] # id) => reported \/ timedOut

\* C10: how a transfer attempt is settled.
C10_Settlement == []C10_Armed /\ [][C10_Step]_vars

\* C10 witness: an item was given up after its last attempt timed out, the
\* timeouts having counted towards the bound like errors.
C10_Witness ==
  \E k \in DOMAIN results :
    /\ results[k] = FailedResult(results[k].media, "Download timeout")
    /\ downloadCalls[results[k].media] = 4
    /\ \E t \in DOMAIN transfers : transfers[t].state = "in_progress"

\* C11 (steps): a transfer event whose id is not the id an invocation awaits
\* settles nothing. An event for a transfer nobody awaits (a late event for a
\* transfer given up by timeout included) leaves every invocation, every item
\* and the results as they are; and an attempt that waits, in a step that
\* brings neither an event for its own id nor its own timeout, keeps waiting,
\* with every item's status and the results unchanged.
C11_Step ==
  /\ \A t \in DOMAIN transfers :
       (transfers'[t] # transfers[t] /\ ~\E p \in Calls : pc[p] = "waiting" /\ downloadId[p] = t)
         => UNCHANGED <<pc, downloadId, attempt, curItem, ret, items, queue, results>>
  /\ \A p \in Calls : pc[p] = "waiting" =>
       LET id == downloadId[p]
           own == \/ transfers'[id] # transfers[id]
                  \/ \E tt \in timers \ timers' : tt.kind = "timeout" /\ tt.id = id
       IN ~own => /\ pc'[p] = "waiting"
                  /\ downloadId'[p] = id
                  /\ results' = results
                  /\ \A i \in DOMAIN items : items'[i].status = items[i].status

\* C11: events with another id than the awaited one are ignored.
C11_OtherIdsIgnored == [][C11_Step]_vars

\* C11 witness: the first item's first transfer was given up by timeout and
\* was reported complete afterwards (its leaked listener consumed the event),
\* while the item is still being downloaded by a later transfer.
C11_Witness ==
  \E p \in Calls :
    /\ pc[p] = "waiting"
    /\ curItem[p] = 1
    /\ downloadId[p] = 2
    /\ items[1].status = "downloading"
    /\ transfers[1].state = "complete"
    /\ 1 \notin listeners

\* C12 (states): the configured schedule increases strictly; an invocation
\* in its backoff has failed an attempt k < 3 and has exactly one timer
\* pending, of retryDelays[k]; no backoff timer is pending for an invocation
\* that is not in its backoff.
C12_Backoff ==
  /\ \A j, k \in DOMAIN retryDelays : j < k => retryDelays[j] < retryDelays[k]
  /\ \A p \in Calls : pc[p] = "sleeping" =>
       /\ attempt[p] < 3
       /\ {tt \in timers : tt.call = p} =
            {[kind |-> "sleep", call |-> p, id |-> NULL,
              ms |-> <<2000, 4000, 8000>>[attempt[p] + 1]]}
  /\ \A tt \in timers : tt.kind = "sleep" => pc[tt.call] = "sleeping"

\* C12 (steps): a further request for an item that has had k requests is
\* made only by the step in which the backoff timer of retryDelays[k - 1]
\* fires; a step that records a result (success, or failure after the last
\* attempt) leaves no backoff timer behind.
C12_Step ==
  /\ \A i \in DOMAIN downloadCalls :
       (downloadCalls'[i] > downloadCalls[i] /\ downloadCalls[i] > 0) =>
         \E tt \in timers \ timers' :
           tt.kind = "sleep" /\ tt.ms = <<2000, 4000, 8000>>[downloadCalls[i]]
  /\ Len(results') > Len(results) => ~\E tt \in timers' : tt.kind = "sleep"

\* C12: the backoff between the attempts for an item.
C12_BackoffSchedule == []C12_Backoff /\ [][C12_Step]_vars

\* C12 witness: the queue waits 8000 ms after the third failed attempt while
\* a later item is pending.
C12_Witness ==
  \E p \in Calls :
    /\ pc[p] = "sleeping"
    /\ attempt[p] = 2
    /\ downloadCalls[curItem[p]] = 3
    /\ SleepTimer(p, 8000) \in timers
    /\ queue # <<>>

\* C13 (steps): a step that adds items appends, for the n media objects in
\* their order, n items with status 'pending', retryCount 0 and one sourceUrl
\* of the call to the tail of the pending list; the items known before, the
\* positions of the pending ones, isProcessing, currentDownload, the results,
\* every invocation and the transport (no request) are as before.
C13_Step ==
  Len(items') > Len(items) =>
    LET first == Len(items)
        n == Len(items') - first
    IN /\ SubSeq(items', 1, first) = items
       /\ \E src \in SourceUrls : \A k \in 1..n :
            items'[first + k] = [media |-> first + k, sourceUrl |-> src,
                                 status |-> "pending", retryCount |-> 0]
       /\ queue' = queue \o [k \in 1..n |-> first + k]
       /\ downloadCalls' = downloadCalls \o [k \in 1..n |-> 0]
       /\ UNCHANGED <<isProcessing, currentDownload, results, pc, curItem, attempt,
                      downloadId, ret, transfers, listeners, timers>>

\* C13: what add() does and what it leaves alone.
C13_AddAppends == [][C13_Step]_vars

\* C13 witness: three items were added; the first is being processed and the
\* other two are pending in the order of their addition, as add() built them.
C13_Witness ==
  /\ isProcessing
  /\ currentDownload = 1
  /\ queue = <<2, 3>>
  /\ \A i \in {2, 3} : items[i].status = "pending" /\ items[i].retryCount = 0

\* C14 (steps): a clear(), whatever the state it is called in, leaves the
\* pending list and the results empty, currentDownload null and isProcessing
\* false, and getStatus() then reports the empty/idle status.
C14_Step ==
  cleared' # cleared =>
    /\ queue' = <<>>
    /\ results' = <<>>
    /\ currentDownload' = NULL
    /\ isProcessing' = FALSE
    /\ getStatus' = [isProcessing |-> FALSE, queueLength |-> 0, currentDownload |-> NULL,
                     completedCount |-> 0, failedCount |-> 0]

\* C14: clear() resets the queue unconditionally.
C14_ClearResets == [][C14_Step]_vars

\* C14 witness: clear() was called while a process() call was in progress
\* with a result recorded and an item pending, and the queue is empty and idle.
C14_Witness ==
  \E p \in Active :
    /\ cleared = 1
    /\ Len(dequeued[p]) = 2
    /\ Len(items) = 3
    /\ getStatus = [isProcessing |-> FALSE, queueLength |-> 0, currentDownload |-> NULL,
                    completedCount |-> 0, failedCount |-> 0]

\* C15 as stated (steps): while a process() call is active no call of a
\* caller (add, clear, a further process) changes the pending list or the
\* results.
C15_CallerStep ==
  (Active # {} /\ (Len(items') > Len(items) \/ cleared' # cleared \/ invoked' # invoked))
    => UNCHANGED <<queue, results>>

\* C15 as stated: during an active process() only its loop changes the lists.
C15_OnlyLoop == [][C15_CallerStep]_vars

\* C15 amended (steps): the guard covers process() alone. A process() called
\* while isProcessing is set changes neither list; an add() during an active
\* process() still appends to the pending list (results untouched), and a
\* clear() during it still empties both lists.
C15_GuardStep ==
  /\ (invoked' # invoked /\ isProcessing) => UNCHANGED <<queue, results>>
  /\ (Active # {} /\ Len(items') > Len(items)) =>
       /\ Len(queue') = Len(queue) + (Len(items') - Len(items))
       /\ SubSeq(queue', 1, Len(queue)) = queue
       /\ results' = results
  /\ (Active # {} /\ cleared' # cleared) => queue' = <<>> /\ results' = <<>>

\* C15 amended: what the re-entrancy guard does and does not keep from the lists.
C15_GuardCoversProcessOnly == [][C15_GuardStep]_vars

\* C15 witness: during an active process() call clear() has emptied the lists
\* (the flag is down though the call is active) and add() has put an item on
\* the pending list since.
C15_Witness ==
  \E p \in Active : ~isProcessing /\ queue # <<>> /\ cleared = 1

\* C16 as stated (steps): every PROCESS_URLS request handled while a batch is
\* in progress is answered 'Batch already in progress' and leaves the batch
\* as it is; a request with a valid URL handled when no batch is in progress
\* is accepted.
C16_BusyStep ==
  requests' # requests =>
    /\ batchProcessing =>
         /\ response' = [success |-> FALSE, error |-> "Batch already in progress",
                         total |-> 0, delay |-> Undefined]
         /\ currentBatch' = currentBatch
    /\ (~batchProcessing /\ \E k \in DOMAIN request'.urls.elems :
                             request'.urls.elems[k] \in {"https://a.example/p", "http://b.example/q"})
         => response'.success /\ batchProcessing' /\ currentBatch' # NoBatch

\* C16 as stated: concurrent requests are refused as 'Batch already in progress'.
C16_BusyRefused == [][C16_BusyStep]_allVars

\* C16 amended (steps): a request handled while a batch is in progress is
\* refused and leaves the batch, its progress and the flag as they are; the
\* answer is 'Batch already in progress' if its urls are a non-empty array and
\* 'No URLs provided' otherwise (that test comes first). A request with a
\* valid URL handled when no batch is in progress is accepted.
C16_RefusedStep ==
  requests' # requests =>
    /\ batchProcessing =>
         /\ ~response'.success
         /\ response'.error =
              (IF request'.urls.isArray /\ Len(request'.urls.elems) > 0
               THEN "Batch already in progress" ELSE "No URLs provided")
         /\ currentBatch' = currentBatch
         /\ batchProcessing'
         /\ batchPc' = batchPc
    /\ (~batchProcessing /\ \E k \in DOMAIN request'.urls.elems :
                             request'.urls.elems[k] \in {"https://a.example/p", "http://b.example/q"})
         => response'.success /\ batchProcessing' /\ currentBatch' # NoBatch

\* C16 amended (states): a batch is in progress exactly when there is one.
C16_Finalized == batchProcessing <=> currentBatch # NoBatch

\* C16 amended: requests during a batch are refused and change nothing.
C16_ConcurrentRefused == []C16_Finalized /\ [][C16_RefusedStep]_allVars

\* C16 witness: a request with URLs was refused as 'Batch already in
\* progress' while the batch was at its second URL, one result recorded.
C16_Witness ==
  /\ batchProcessing
  /\ response = Refused("Batch already in progress")
  /\ currentBatch.current = 2
  /\ Len(currentBatch.results) = 1

\* C17 (states): while a batch is in progress the URLs before the current
\* one (and the current one once it is settled and the loop sleeps its
\* delay), and only they, have their result, one each and in list order,
\* every result being a success or a failure.
C17_Progress ==
  batchProcessing =>
    /\ currentBatch.total = Len(currentBatch.urls)
    /\ currentBatch.current \in 1..Len(currentBatch.urls)
    /\ Len(currentBatch.results) =
         (IF batchPc = "delaying" THEN currentBatch.current ELSE currentBatch.current - 1)
    /\ \A k \in DOMAIN currentBatch.results :
         /\ currentBatch.results[k].url = currentBatch.urls[k]
         /\ currentBatch.results[k].status \in {"success", "failed"}

\* C17 (steps): the batch ends only in the step that settles its last URL,
\* and the BATCH_COMPLETE message of that step carries the results recorded
\* before plus the one of the last URL: one result per URL, in list order, with
\* successful + failed = total. No other step sends BATCH_COMPLETE, and a step
\* that records a result (a failure included) for a URL that is not the last
\* leaves the batch in progress with the next URL to come.
C17_Step ==
  /\ (batchProcessing /\ ~batchProcessing') =>
       LET urls == currentBatch.urls
           msg == batchComplete'
       IN /\ currentBatch.current = Len(urls)
          /\ batchPc \in {"creating", "removing"}
          /\ Len(msg.results) = Len(urls)
          /\ SubSeq(msg.results, 1, Len(urls) - 1) = currentBatch.results
          /\ \A k \in DOMAIN urls : msg.results[k].url = urls[k]
          /\ msg.total = Len(urls)
          /\ msg.successful + msg.failed = msg.total
          /\ msg.successful = Cardinality({k \in DOMAIN urls : msg.results[k].status = "success"})
  /\ batchComplete' # NoCompletion => (batchProcessing /\ ~batchProcessing')
  /\ (batchProcessing /\ batchProcessing') =>
       /\ currentBatch'.urls = currentBatch.urls
       /\ \/ currentBatch'.results = currentBatch.results
          \/ /\ Len(currentBatch'.results) = Len(currentBatch.results) + 1
             /\ SubSeq(currentBatch'.results, 1, Len(currentBatch.results)) = currentBatch.results
             /\ batchPc' \in {"creating", "delaying"}

\* C17: a failed URL does not stop the batch; every URL gets its one result,
\* and a batch in progress is finalized in the end.
C17_BatchContinues ==
  /\ []C17_Progress
  /\ [][C17_Step]_allVars
  /\ (batchProcessing ~> ~batchProcessing)

\* C17 witness: a batch of two URLs was finalized with the first URL failed
\* by a thrown error and the second one successful.
C17_Witness ==
  /\ batchComplete.total = 2
  /\ batchComplete.failed = 1
  /\ batchComplete.successful = 1
  /\ batchComplete.results[1].status = "failed"
  /\ batchComplete.results[1].error = "Failed to process URL: Analysis timeout"
  /\ batchComplete.results[2].status = "success"

\* C18 (steps): an accepted request starts a batch whose URL list has no
\* repetition, holds exactly the elements of the input that parse with
\* protocol http: or https:, in the order of their first occurrence, and the
\* response reports its length as total; a request whose urls are not an
\* array, are empty or hold no such URL is refused and starts nothing (the
\* batch and the flag stay as they are); a request handled when no batch is
\* in progress is accepted if it holds such a URL.
C18_Step ==
  requests' # requests =>
    LET input == request'.urls
        elems == input.elems
        ok(u) == u \in {"https://a.example/p", "http://b.example/q"}
        first(u) == CHOOSE k \in DOMAIN elems : elems[k] = u /\ \A j \in 1..(k - 1) : elems[j] # u
        list == currentBatch'.urls
    IN /\ response'.success =>
            /\ \A i, j \in DOMAIN list : i # j => list[i] # list[j]
            /\ {list[i] : i \in DOMAIN list} = {elems[k] : k \in {n \in DOMAIN elems : ok(elems[n])}}
            /\ \A i, j \in DOMAIN list : i < j => first(list[i]) < first(list[j])
            /\ response'.total = Len(list)
            /\ currentBatch'.total = Len(list)
            /\ currentBatch'.results = <<>>
            /\ batchProcessing' /\ ~batchProcessing
       /\ (~input.isArray \/ ~\E k \in DOMAIN elems : ok(elems[k])) =>
            /\ ~response'.success
            /\ currentBatch' = currentBatch
            /\ batchProcessing' = batchProcessing
            /\ batchPc' = batchPc
       /\ (~batchProcessing /\ \E k \in DOMAIN elems : ok(elems[k])) => response'.success

\* C18: the URL list of a batch is the valid input URLs without repetition.
C18_UniqueValidUrls == [][C18_Step]_allVars

\* C18 witness: a request with a repeated URL around another valid one was
\* accepted with the two URLs in the order of their first occurrence.
C18_Witness ==
  /\ response.success
  /\ request.urls.elems = <<"http://b.example/q", "https://a.example/p", "http://b.example/q">>
  /\ currentBatch.urls = <<"http://b.example/q", "https://a.example/p">>
  /\ response.total = 2

\* C19: validateDelay returns a number that is not NaN clamped to [0, 30]
\* (the result is in the range, a value in the range is returned as it is,
\* one below gives 0 and one above gives 30), returns 2 for NaN and for every
\* value that is not a number, and applied to its own result returns it again.
C19_Clamp ==
  (fn = "validateDelay" /\ vals # <<>>) =>
    LET d == arg
        r == vals[1]
        below == d.kind = "-Infinity" \/ (d.kind = "finite" /\ d.halves < 0)
        above == d.kind = "+Infinity" \/ (d.kind = "finite" /\ d.halves > 60)
    IN /\ r.type = "number" /\ r.kind = "finite"
       /\ 0 <= r.halves /\ r.halves <= 60
       /\ IF d.type = "number" /\ d.kind # "NaN"
          THEN /\ below => r.halves = 0
               /\ above => r.halves = 60
               /\ (~below /\ ~above) => r = d
          ELSE r.halves = 4
       /\ Len(vals) = 2 => vals[2] = r

\* C19 witness: 30.5 was clamped to 30, and 30 validated again is 30.
C19_Witness ==
  /\ fn = "validateDelay"
  /\ arg = [type |-> "number", kind |-> "finite", halves |-> 61]
  /\ Len(vals) = 2
  /\ vals[1].halves = 60

C21_Idempotent ==
  (fn = "makeAbsoluteUrl" /\ Len(vals) = 2) => vals[2] = vals[1]

\* C30 as stated: at most one onChanged listener of the queue is registered
\* at any time (every listener is removed when its attempt ends).
C30_OneListener == Cardinality(listeners) <= 1

\* C23: the score of an element is area x viewportBonus x qualityBonus with
\* viewportBonus 1.5 / 1.2 / 1.0 for a fully / partially / not visible element
\* and qualityBonus 1.3 for a width above 1920, 1.1 for a width above 1280
\* and 1.0 otherwise (1920 gets 1.1, 1280 gets 1.0); a fully visible element
\* of positive area scores strictly higher than an element of the same size
\* that is not visible, and a fully visible 2000x1000 element scores
\* 3,900,000. Scores are in hundredths.
C23_Score ==
  (fn = "score" /\ vals # <<>>) =>
    LET size == calculateElementSize(arg)
        visibility == getViewportVisibility(arg)
        viewport == CASE visibility = "fully" -> 15
                      [] visibility = "partially" -> 12
                      [] visibility = "none" -> 10
        quality == IF size.width > 1920 THEN 13 ELSE IF size.width > 1280 THEN 11 ELSE 10
        offscreen == [arg EXCEPT !.rect.left = 5000]
    IN /\ vals[1] = size.area * viewport * quality
       /\ size.width = 1920 => vals[1] = size.area * viewport * 11
       /\ size.width = 1280 => vals[1] = size.area * viewport * 10
       /\ (size.area > 0 /\ visibility = "fully") =>
            /\ getViewportVisibility(offscreen) = "none"
            /\ calculateElementSize(offscreen) = size
            /\ vals[1] > Score(offscreen)
       /\ (size.width = 2000 /\ size.height = 1000 /\ visibility = "fully") =>
            vals[1] = 3900000 * 100

\* C23 witness: the score of a fully visible image of intrinsic size
\* 2000x1000 was computed.
C23_Witness ==
  /\ fn = "score"
  /\ arg.tag = "img"
  /\ arg.natural = Dim(2000, 1000)
  /\ arg.rect = Rect(0, 0, 1000, 500)
  /\ vals = <<390000000>>

\* The detector has run on the document.
Analysed == fn = "detectHeroMedia" /\ vals # <<>>

\* C22: every media candidate the generic detector or the Instagram detector
\* returns has a url that starts with http:// or https://, is not a data:
\* URL and has at most 2048 characters; isValidMediaUrl rejects a data: URL
\* of any length.
C22_ValidUrls ==
  /\ Analysed =>
       \A k \in DOMAIN vals[1] :
         LET url == vals[1][k].url
         IN /\ ~url.isNull
            /\ \/ SubSeq(url.chars, 1, 3) = <<"http:", "/", "/">>
               \/ SubSeq(url.chars, 1, 3) = <<"https:", "/", "/">>
            /\ url.chars[1] # "data:"
            /\ Length(url.chars) <= 2048
  /\ fn = "detectHeroMedia" =>
       \A k \in DOMAIN arg.elements :
         arg.elements[k].src \in {"data:image/png;base64,AAAA", "data:<4056 characters>"}
           => ~isValidMediaUrl(Str(MediaUrlChars(arg.elements[k].src)))

\* C22 witness: a document with a data: image of more than 2048 characters
\* and a video whose URL has exactly 2048 characters gave that video.
C22_Witness ==
  /\ Analysed
  /\ \E k \in DOMAIN arg.elements : arg.elements[k].src = "data:<4056 characters>"
  /\ Len(vals[1]) = 1
  /\ vals[1][1].type = "video"
  /\ Length(vals[1][1].url.chars) = 2048

\* The first of the elements of the highest score.
Top(elements) ==
  elements[CHOOSE k \in DOMAIN elements :
             /\ \A j \in DOMAIN elements : Score(elements[j]) <= Score(elements[k])
             /\ \A j \in 1..(k - 1) : Score(elements[j]) < Score(elements[k])]

\* What a stage of the generic detector offers: the URL of the
\* highest-scoring element that passes the filters (null if there is none).
StageUrl(page, stage) ==
  LET passed == filterElements(CASE stage = "video" -> getAllVideos(page)
                                 [] stage = "image" -> getAllImages(page)
                                 [] OTHER -> getElementsWithBackgroundImages(page))
  IN IF passed = <<>>
     THEN NullStr
     ELSE CASE stage = "video" -> extractVideoUrl(Top(passed), page.location)
            [] stage = "image" -> extractImageUrl(Top(passed), page.location)
            [] OTHER -> extractBackgroundImageUrl(Top(passed))

\* The result is the one candidate of the stage.
IsStageResult(result, page, stage) ==
  LET passed == filterElements(CASE stage = "video" -> getAllVideos(page)
                                 [] stage = "image" -> getAllImages(page)
                                 [] OTHER -> getElementsWithBackgroundImages(page))
  IN /\ Len(result) = 1
     /\ result[1].url = StageUrl(page, stage)
     /\ result[1].type = (IF stage = "video" THEN "video" ELSE "image")
     /\ result[1].element = Top(passed).tag
     /\ result[1].score = Score(Top(passed))

CarouselAnalysed ==
  Analysed /\ shouldUseInstagramDetector(arg) /\ detectPostType(arg) = "carousel"

\* An element the carousel detector takes media from: in the article, an
\* image with a srcset that is neither profile art nor a UI glyph, or a video.
Qualifies(e) ==
  /\ e.inArticle
  /\ \/ e.tag = "video"
     \/ e.tag = "img" /\ e.srcset # <<>> /\ ~isProfilePicture(e) /\ ~isUIElement(e)

\* The URL an element resolves to.
Resolved(e, location) ==
  IF e.tag = "img" THEN extractImageUrl(e, location) ELSE extractVideoUrl(e, location)

\* C25: the carousel detector's output has no two items of the same url, and
\* at most as many items as the qualifying images and videos have distinct
\* URLs.
C25_NoDuplicates ==
  CarouselAnalysed =>
    /\ \A i, j \in DOMAIN vals[1] : vals[1][i].url = vals[1][j].url => i = j
    /\ Len(vals[1]) <=
         Cardinality({Resolved(arg.elements[k], arg.location) :
                        k \in {n \in DOMAIN arg.elements : Qualifies(arg.elements[n])}})

\* name is base with the suffix _position before its extension.
HasPositionSuffix(name, base, position) ==
  \E j \in 1..(Len(name) - 2) :
    /\ name[j] = "_"
    /\ name[j + 1] = ToString(position)
    /\ name[j + 2] = "."
    /\ \A i \in (j + 3)..Len(name) : name[i] # "."
    /\ SubSeq(name, 1, j - 1) \o SubSeq(name, j + 2, Len(name)) = base

\* C26: a carousel output has N <= maxCarouselItems = 10 items; their
\* positions are 1..N in output order and every totalItems is N; for N > 1
\* each filename is the file name of the URL with the suffix _position before
\* its extension, for N = 1 it is the file name of the URL without a suffix.
C26_Positions ==
  CarouselAnalysed =>
    LET N == Len(vals[1])
    IN /\ N <= maxCarouselItems
       /\ maxCarouselItems = 10
       /\ \A k \in 1..N :
            /\ vals[1][k].position = k
            /\ vals[1][k].totalItems = N
            /\ IF N > 1
               THEN HasPositionSuffix(vals[1][k].filename,
                                      extractFilenameFromUrl(vals[1][k].url, arg.location), k)
               ELSE vals[1][k].filename = extractFilenameFromUrl(vals[1][k].url, arg.location)

\* C26 witness: a carousel of more photos than maxCarouselItems gave
\* maxCarouselItems items, the last one at position 10 with the suffix _10.
C26_Witness ==
  /\ CarouselAnalysed
  /\ Len(arg.elements) > maxCarouselItems
  /\ Len(vals[1]) = maxCarouselItems
  /\ vals[1][10].position = 10
  /\ vals[1][10].filename = <<"photo10", "_", "10", ".", "jpg">>

\* The place in the document of the element an output item was taken from.
SourceIndex(item) ==
  LET from == {k \in DOMAIN arg.elements :
                 /\ Qualifies(arg.elements[k])
                 /\ (arg.elements[k].tag = "img") = (item.type = "image")
                 /\ Resolved(arg.elements[k], arg.location) = item.url}
  IN CHOOSE k \in from : \A j \in from : k <= j

\* C27: the carousel detector's output is in document order: of two output
\* items, the one whose element comes first in the article comes first.
C27_DomOrder ==
  CarouselAnalysed =>
    \A i, j \in DOMAIN vals[1] : i < j => SourceIndex(vals[1][i]) < SourceIndex(vals[1][j])

\* The videos of the document that carry playsinline and have a valid URL,
\* and all its videos that have a valid URL.
InlineVideoUrls ==
  {extractVideoUrl(arg.elements[k], arg.location) :
     k \in {n \in DOMAIN arg.elements :
              /\ arg.elements[n].tag = "video"
              /\ arg.elements[n].playsinline
              /\ isValidMediaUrl(extractVideoUrl(arg.elements[n], arg.location))}}
VideoUrls ==
  {extractVideoUrl(arg.elements[k], arg.location) :
     k \in {n \in DOMAIN arg.elements :
              /\ arg.elements[n].tag = "video"
              /\ isValidMediaUrl(extractVideoUrl(arg.elements[n], arg.location))}}

\* C28: on a page whose URL holds /reel/ or /reels/, and on a page with a
\* video that carries playsinline, the Instagram detector returns that video
\* and nothing else; each signal alone is enough.
C28_ReelSignals ==
  Analysed /\ shouldUseInstagramDetector(arg) =>
    /\ InlineVideoUrls # {} =>
         Len(vals[1]) = 1 /\ vals[1][1].type = "video" /\ vals[1][1].url \in InlineVideoUrls
    /\ (HrefIncludes(arg.location.href, "reel") \/ HrefIncludes(arg.location.href, "reels"))
         /\ VideoUrls # {} =>
         Len(vals[1]) = 1 /\ vals[1][1].type = "video" /\ vals[1][1].url \in VideoUrls

\* A srcset-bearing image of intrinsic size 1080x1080 whose alt text names
\* neither a profile nor a UI glyph.
IsContentPhoto(e) ==
  /\ e.tag = "img" /\ e.inArticle /\ e.srcset # <<>>
  /\ e.natural = Dim(1080, 1080)
  /\ e.alt = "Photo by user"

\* A 40x40 profile image.
IsProfileImage(e) ==
  /\ e.tag = "img" /\ e.inArticle
  /\ e.rect.width = 40 /\ e.rect.height = 40

\* C29: for an article that holds a 1080x1080 srcset image with a plain alt
\* text and a 40x40 profile image, the detector returns exactly one
\* candidate, the 1080x1080 image.
C29_ProfileFiltered ==
  /\ Analysed
  /\ arg.location = InstagramPost
  /\ ~arg.indicators
  /\ Len(arg.elements) = 2
  /\ \E i, j \in DOMAIN arg.elements :
       IsProfileImage(arg.elements[i]) /\ IsContentPhoto(arg.elements[j])
  => \E j \in DOMAIN arg.elements :
       /\ IsContentPhoto(arg.elements[j])
       /\ Len(vals[1]) = 1
       /\ vals[1][1].type = "image"
       /\ vals[1][1].url = extractImageUrl(arg.elements[j], arg.location)

\* process() invocation p is under way: accepted and not yet returned.
Draining(p) == pc[p] \in {"starting", "started", "waiting", "sleeping"}

\* C31 (steps): the step in which a process() invocation returns leaves the
\* flag false, the pending list empty and no current download, and no media
\* object has been requested more than 1 + retryAttempts times.
C31_Return ==
  /\ \A p \in Calls :
       (Draining(p) /\ pc'[p] = "done") =>
         /\ ~isProcessing'
         /\ queue' = <<>>
         /\ currentDownload' = NULL
         /\ \A k \in DOMAIN ret'[p].value : ret'[p].value[k].status \in {"completed", "failed"}
  /\ \A i \in DOMAIN downloadCalls' : downloadCalls'[i] <= 1 + retryAttempts

\* C31: when every download() request is answered and every timer fires, a
\* process() invocation under way returns, whatever the transport reports or
\* fails to report; on return the flag is false, the pending list is empty,
\* there is no current download, and every item took at most
\* 1 + retryAttempts attempts.
C31_Terminates ==
  /\ [][C31_Return]_vars
  /\ \A p \in Calls : Draining(p) ~> (pc[p] = "done")

\* C31 witness: an invocation returned its item failed by the timeout of its
\* last attempt, and the transport never reported anything about any
\* transfer (all of them are still in progress).
C31_Witness ==
  \E p \in Calls :
    /\ pc[p] = "done"
    /\ Len(ret[p].value) > 0
    /\ ret[p].value[1].status = "failed"
    /\ ret[p].value[1].error = ErrTimeout
    /\ Len(transfers) > 0
    /\ \A t \in DOMAIN transfers : transfers[t].state = "in_progress"
    /\ downloadCalls[ret[p].value[1].media] = 1 + retryAttempts

\* The report of the content script of url has been sent and the background
\* handler of that message has run to its end.
ReportHandled(url) ==
  /\ url \notin asked
  /\ \A r \in reports : r.url # url
  /\ handlers[url] = 0

\* C32: processUrl(u) does not fail with 'Analysis timeout' once the report
\* of the content script for u has been handled by the background, in
\* whatever order the report and the registration of the wait come: a step in
\* which the wait for the current URL times out is taken only while the
\* report for that URL is still to come or still being handled.
C32_ReportResolves ==
  [][(batchPc = "awaiting" /\ batchPc' = "closing"
        /\ settled' = Thrown(currentUrl, ErrAnalysisTimeout))
       => ~ReportHandled(currentUrl)]_allVars

\* C33: the URLs of a batch are processed one at a time, each tab being
\* closed before the next one is created: at no time are two tabs that the
\* batch created open.
C33_OneTab == Cardinality(openTabs) <= 1

\* C34: the batch waits its delay between two URLs whatever the outcome of
\* the earlier one: a step that starts the next URL of a batch in progress
\* is the end of the sleep of the delay.
C34_DelayBetween ==
  [][(batchProcessing /\ batchProcessing'
        /\ currentBatch'.current = currentBatch.current + 1)
       => batchPc = "delaying"]_allVars

\* C35: no terminal event of a requested transfer is lost: a step in which
\* the transport reports the end (complete or error) of the transfer that an
\* attempt was accepted with settles that attempt, whether or not the queue
\* has subscribed its listener yet.
C35_NoEventLost ==
  [][\A p \in Calls :
       (/\ pc[p] \in {"started", "waiting"}
        /\ downloadId[p] \in DOMAIN transfers
        /\ transfers[downloadId[p]].state = "in_progress"
        /\ transfers'[downloadId[p]].state # "in_progress")
         => (pc'[p] \notin {"started", "waiting"} \/ downloadId'[p] # downloadId[p])]_vars

\* Item i was dropped by clear(): it is neither pending nor was it ever taken
\* by a drain loop.
Dropped(i) ==
  /\ \A k \in DOMAIN queue : queue[k] # i
  /\ \A p \in Calls : \A k \in DOMAIN dequeued[p] : dequeued[p][k] # i

\* C36 (states): an item that clear() dropped is never handed to the
\* transport: it has no download() request and is still 'pending'.
C36_DroppedUntouched ==
  \A i \in DOMAIN items :
    Dropped(i) => (downloadCalls[i] = 0 /\ items[i].status = "pending")

\* C36 (steps): a clear() step empties the pending list and resets the
\* bookkeeping, and leaves every process() invocation where it is, with its
\* item, its attempt number, its transfer, its timers and its listener; the
\* step in which an invocation returns leaves the flag false and no current
\* download.
C36_Step ==
  /\ cleared' = cleared + 1 =>
       /\ queue' = <<>>
       /\ pc' = pc
       /\ curItem' = curItem
       /\ attempt' = attempt
       /\ downloadId' = downloadId
       /\ timers' = timers
       /\ listeners' = listeners
       /\ transfers' = transfers
       /\ items' = items
  /\ \A p \in Calls :
       (Draining(p) /\ pc'[p] = "done") => (~isProcessing' /\ currentDownload' = NULL)

\* C36: clear() during process() only resets bookkeeping: the attempt in
\* flight goes on with its retries, the items that were pending are never
\* transferred, and the invocation under way still returns, with the flag
\* false and no current download.
C36_ClearInFlight ==
  /\ []C36_DroppedUntouched
  /\ [][C36_Step]_vars
  /\ \A p \in Calls : (cleared > 0 /\ Draining(p)) ~> (pc[p] = "done")

\* C36 witness: clear() was called while the first item was in flight and a
\* second one was pending; the first item was retried and completed, its
\* result is the only one recorded, the call returned, and the second item
\* was never requested.
C36_Witness ==
  /\ cleared = 1
  /\ Len(items) = 2
  /\ Dropped(2)
  /\ downloadCalls[2] = 0
  /\ pc[1] = "done"
  /\ results = <<CompletedResult(1, 2)>>
  /\ ret[1].value = results
  /\ items[1].retryCount = 1
  /\ ~isProcessing
  /\ currentDownload = NULL

\* At most one process() call has been accepted so far (a rejected call
\* changes nothing).
OneInvocation == Cardinality({p \in Calls : pc[p] \notin {"idle", "rejected"}}) <= 1

\* In how many of the places pending, current and results item i is.
Places(i) ==
  Cardinality({k \in DOMAIN queue : queue[k] = i})
    + (IF currentDownload = i THEN 1 ELSE 0)
    + Cardinality({k \in DOMAIN results : results[k].media = items[i].media})

\* C37: up to and during one process() invocation (no clear()), getStatus()
\* accounts for every item added: queueLength + (1 if there is a current
\* download) + completedCount + failedCount is the number of items added,
\* each item being in exactly one of pending, current and results; and there
\* is no current download whenever the flag is false.
C37_Conservation ==
  /\ OneInvocation =>
        /\ getStatus.queueLength + (IF getStatus.currentDownload # NULL THEN 1 ELSE 0)
              + getStatus.completedCount + getStatus.failedCount = Len(items)
        /\ \A i \in DOMAIN items : Places(i) = 1
  /\ ~getStatus.isProcessing => getStatus.currentDownload = NULL

\* C37 witness: in the middle of an invocation, with three items added: one
\* failed, one current and one pending.
C37_Witness ==
  /\ OneInvocation
  /\ isProcessing
  /\ Len(items) = 3
  /\ getStatus.queueLength = 1
  /\ getStatus.currentDownload = 2
  /\ getStatus.failedCount = 1
  /\ getStatus.completedCount = 0

\* The URLs for which a queue created by handleMediaDetected is processing.
Downloading == {u \in BatchUrls : handlers[u] > 0}

\* C38: no parallel downloads: at most one queue created by
\* handleMediaDetected is processing at any time.
C38_OneQueue ==
  /\ Cardinality(Downloading) <= 1
  /\ \A u \in Downloading : handlers[u] = 1

\* C39: for an ANALYZE_PAGE request the content script sends exactly one
\* report, MEDIA_DETECTED with media or ANALYSIS_FAILED: never two, and one
\* by the time the request is answered.
C39_OneReport ==
  /\ Len(sent) <= 1
  /\ contentPc \in {"reporting", "failing", "answered"} => Len(sent) = 1
  /\ \A k \in DOMAIN sent : sent[k].type = "MEDIA_DETECTED" => sent[k].media # <<>>

====
